---- MODULE Spec2Model ----
(***************************************************************************)
(* Model of the natural-language program harness FrameV4                   *)
(* (src/backend/frame/harness4.py) and of the errands it runs              *)
(* (src/backend/frame/errands4.py).                                        *)
(*                                                                         *)
(* FrameV4.process_message contains a `yield` statement, so in Python it   *)
(* is a generator function: calling it only creates a generator object,    *)
(* and its body runs when the object is resumed (next()).  One resumption  *)
(* runs the body, without interruption, up to the next `yield`, to its     *)
(* end (StopIteration carrying the `return` value) or to a raise.          *)
(*                                                                         *)
(* Text produced by the language model is an input.  It is drawn, where    *)
(* the code consumes it, from small sets that describe what the text       *)
(* makes the interpreter do:                                               *)
(*   - a synthesis reply is the list of top-level function definitions     *)
(*     that ast.parse finds in it after sanitize_code and the rename       *)
(*     pass (the empty list when it does not parse);                       *)
(*   - an invocation snippet is one of a few statement forms;              *)
(*   - a classifier reply is a string of atoms searched for substrings.    *)
(***************************************************************************)
EXTENDS Integers, Sequences, FiniteSets, TLC

(***************************************************************************)
(* Bounds of the model.                                                    *)
(***************************************************************************)
MaxMid == 2        \* messages submitted in one behaviour: mids 0 .. MaxMid-1
MaxFuncs == 2      \* top-level functions in one synthesis reply
MaxGenLen == 2     \* elements a streaming routine yields
MaxReplyLen == 2   \* atoms in a reply of the LM to the message_type errand
MaxSrcLines == 3    \* lines in a source text given to sanitize_code
MaxPromptLen == 3   \* atoms in the prompt template of an errand
MaxEvents == 5     \* events after which a session takes no further event
MaxRuns == 2       \* research runs of one session
MaxTopics == 1     \* topics generate_topics returns for one research run
                   \* from a research, reporting or notification generator

FNames == {"doubler", "helper"}      \* identifiers of synthesized functions
TNames == {"x", "done"}              \* identifiers of tidings
Vals == {1, 7}                       \* values the snippets assign
Vers == {2, 3}                       \* bodies of a function: f(n) = ver * n
Descs == {"d1"}                      \* descriptions the variables errand gives

NoValue == <<>>                      \* Python None
Some(v) == <<v>>
EmptyDict == [n \in {} |-> 0]

(***************************************************************************)
(* Strings the code searches are sequences of atoms.                       *)
(***************************************************************************)
IsPrefixAt(needle, hay, i) ==
    /\ i + Len(needle) - 1 <= Len(hay)
    /\ \A k \in 1..Len(needle) : hay[i + k - 1] = needle[k]

\* Python's `needle in hay` for strings
Contains(hay, needle) ==
    \E i \in 1..(Len(hay) + 1) : IsPrefixAt(needle, hay, i)

\* str.strip() on a message: drop leading and trailing blanks
RECURSIVE LStrip(_)
LStrip(s) == IF s # <<>> /\ Head(s) = " " THEN LStrip(Tail(s)) ELSE s

RECURSIVE RStrip(_)
RStrip(s) ==
    IF s # <<>> /\ s[Len(s)] = " " THEN RStrip(SubSeq(s, 1, Len(s) - 1)) ELSE s

Strip(s) == RStrip(LStrip(s))

(***************************************************************************)
(* Message types (harness4.py:271-281) and the classifier                  *)
(* (errands4.py:55-90, harness4.py:386-405).                               *)
(***************************************************************************)
allowed_message_types ==
    <<"routine", "routine_skill", "query", "query_skill", "code",
      "code_skill", "data", "auto", "generating_routine">>

Range(seq) == {seq[i] : i \in 1..Len(seq)}

NoType == "<None>"                   \* message_type=None / run() returning None
GivenTypes == Range(allowed_message_types) \cup {NoType, "report"}
\* the types of the messages given to FrameV4.generate
GenerateTypes == {"data", "code", "generating_routine"}
\* the types of the messages submitted while an earlier streaming message
\* is suspended
InterleavedTypes == {"data", "code_skill"}

\* the spelling of a type name, in atoms
Atoms(t) ==
    CASE t = "code_skill" -> <<"code", "_skill">>
      [] t = "routine_skill" -> <<"routine", "_skill">>
      [] t = "query_skill" -> <<"query", "_skill">>
      [] t = "generating_routine" -> <<"generating_", "routine">>
      [] OTHER -> <<t>>

\* mutant: the choices are listed with the short names first
MessageTypeChoicesShortFirst ==
    <<"code", "routine", "query", "data", "code_skill", "routine_skill",
      "query_skill">>

MessageTypeChoices ==
    <<"code_skill", "routine_skill", "query_skill", "code", "routine",
      "query", "data">>

\* replies of the LM to the message_type errand
TypeReplies ==
    {Atoms(t) : t \in {"code", "code_skill", "query", "generating_routine",
                       "auto"}}
        \cup {<<"it", "is", "data">>}

\* mutant: the choice that occurs first in the reply
EarliestChoice(choices, raw_completion) ==
    LET at(c) == {i \in 1..(Len(raw_completion) + 1) :
                    IsPrefixAt(Atoms(c), raw_completion, i)}
        hits == {c \in Range(choices) : at(c) # {}}
        first(c) == CHOOSE i \in at(c) : \A j \in at(c) : i <= j
    IN IF hits = {} THEN NoType
       ELSE CHOOSE c \in hits :
                \A d \in hits :
                    \/ first(c) < first(d)
                    \/ first(c) = first(d) /\ Len(Atoms(c)) >= Len(Atoms(d))

\* for choice in self.choices: if choice in raw_completion: return choice
\* return None
RECURSIVE FirstChoice(_, _)
FirstChoice(choices, raw_completion) ==
    IF choices = <<>> THEN NoType
    ELSE IF Contains(raw_completion, Atoms(Head(choices))) THEN Head(choices)
    ELSE FirstChoice(Tail(choices), raw_completion)

MultipleChoiceRun(raw_completion) ==
    FirstChoice(MessageTypeChoices, raw_completion)

\* every reply of at most MaxReplyLen atoms
ReplyAtoms ==
    {"code", "_skill", "routine", "query", "data", "auto", "generating_",
     "report"}
AllReplies == UNION {[1..n -> ReplyAtoms] : n \in 0..MaxReplyLen}

\* mutant: a reply that names no choice is taken as "auto"
DecideMessageTypeLenient(raw_completion) ==
    LET message_type == MultipleChoiceRun(raw_completion)
    IN [raised |-> FALSE,
        message_type |-> IF message_type = NoType THEN "auto" ELSE message_type]

\* decide_message_type: [raised, message_type]
DecideMessageType(raw_completion) ==
    LET message_type == MultipleChoiceRun(raw_completion)
    IN IF message_type = NoType
          \/ message_type \notin Range(allowed_message_types)
       THEN [raised |-> TRUE, message_type |-> NoType]
       ELSE [raised |-> FALSE, message_type |-> message_type]

Contents == {<<" ", " ">>, <<" ", "a">>}          \* message texts

(***************************************************************************)
(* Synthesis (harness4.py:408-648).  A function definition found by        *)
(* extract_function_definitions is python_name, its body ver (f(n) is      *)
(* ver * n) and status:                                                    *)
(*   "ok"     it has a docstring and its def statement executes;           *)
(*   "raises" it has a docstring and executing its def statement raises    *)
(*            (a default value or decorator that fails);                   *)
(*   "nodoc"  it has no docstring: ast.get_docstring gives None.           *)
(***************************************************************************)
FuncDef(n, v, st) == [python_name |-> n, ver |-> v, status |-> st]
FuncDefs ==
    {FuncDef("doubler", v, "ok") : v \in Vers}
        \cup {FuncDef("helper", 2, "ok"), FuncDef("doubler", 2, "raises")}

\* what extract_function_definitions returns for the replies of the LM:
\* lists of documented functions, and a function without a docstring
SynthReplies ==
    UNION {[1..n -> FuncDefs] : n \in 0..MaxFuncs}
        \cup {<<FuncDef("helper", 2, "nodoc")>>}

\* replies to the pipelines that keep the principal function only: every
\* first function, alone or followed by further functions
ExtraFunc == FuncDef("helper", 2, "ok")
PrincipalReplies ==
    {r \in SynthReplies :
        /\ \A i \in 2..Len(r) : r[i] = ExtraFunc
        /\ Len(r) > 1 => r[1] = FuncDef("doubler", 2, "ok")}

\* func["docstring"], as ast.get_docstring gives it for a documented
\* function
Docstring(func) == <<"Docstring of ", func.python_name, ".">>

\* docstring_addendum (harness4.py:431, 508, 568)
docstring_addendum(mid) ==
    <<"\n\n",
      "This function was generated to fulfill the intent of the user message with message id ",
      ToString(mid), ".">>

\* mutant: the skill keeps the docstring of the synthesis output
SkillOfUnsigned(func, mid) ==
    [python_name |-> func.python_name, ver |-> func.ver, mid |-> mid,
     docstring |-> Docstring(func),
     raises |-> (func.status = "raises")]

\* SkillV4 built at harness4.py:441-448; mid is the message the skill was
\* produced from, raises whether exec of its code raises
SkillOf(func, mid) ==
    [python_name |-> func.python_name, ver |-> func.ver, mid |-> mid,
     docstring |-> Docstring(func) \o docstring_addendum(mid),
     raises |-> (func.status = "raises")]

\* process_message_code / process_message_routine, the synthesis part:
\* func["docstring"] + docstring_addendum is a TypeError for None
PrincipalSkills(func_defs, mid) ==
    IF func_defs = <<>> THEN [raised |-> FALSE, skills |-> <<>>]
    ELSE IF func_defs[1].status = "nodoc"
         THEN [raised |-> TRUE, skills |-> <<>>]
         ELSE [raised |-> FALSE, skills |-> <<SkillOf(func_defs[1], mid)>>]

\* mutant: as in process_message_code, only the first function is kept
AllSkillsFirstOnly(func_defs, mid) ==
    IF func_defs = <<>> THEN [raised |-> FALSE, skills |-> <<>>]
    ELSE IF func_defs[1].status = "nodoc"
         THEN [raised |-> TRUE, skills |-> <<>>]
         ELSE [raised |-> FALSE, skills |-> <<SkillOf(func_defs[1], mid)>>]

\* process_message_code_skill: every top-level function becomes a skill
AllSkills(func_defs, mid) ==
    IF \E i \in 1..Len(func_defs) : func_defs[i].status = "nodoc"
    THEN [raised |-> TRUE, skills |-> <<>>]
    ELSE [raised |-> FALSE,
          skills |-> [i \in 1..Len(func_defs) |-> SkillOf(func_defs[i], mid)]]

\* variable descriptions parsed from the variables errand
VariableDescriptions == {EmptyDict} \cup {[n \in TNames |-> d] : d \in Descs}

(***************************************************************************)
(* The stores (harness4.py:102-107) and installing skills                  *)
(* (harness4.py:327-333).                                                  *)
(***************************************************************************)
\* the function object that executing a skill's code defines
CallableOf(skill) ==
    [name |-> skill.python_name, ver |-> skill.ver, mid |-> skill.mid]

StoredSkill(skill) ==
    [python_name |-> skill.python_name, ver |-> skill.ver, mid |-> skill.mid,
     docstring |-> skill.docstring]

\* mutant: the assignment replaces the whole dict
PutAlone(dict, key, value) == [k \in {key} |-> value]

Put(dict, key, value) ==
    [k \in DOMAIN dict \cup {key} |-> IF k = key THEN value ELSE dict[k]]

\* for skill in skills: exec(skill.code, globals, skill_capture_context);
\*                      self.skills[skill.name] = skill
RECURSIVE InstallLoop(_, _, _)
InstallLoop(todo, store, capture) ==
    IF todo = <<>> THEN [raised |-> FALSE, skills |-> store, capture |-> capture]
    ELSE IF Head(todo).raises
         THEN [raised |-> TRUE, skills |-> store, capture |-> capture]
         ELSE InstallLoop(Tail(todo),
                          Put(store, Head(todo).python_name, StoredSkill(Head(todo))),
                          Put(capture, Head(todo).python_name, CallableOf(Head(todo))))

\* for context_var, context_value in skill_capture_context.items():
\*     if not context_var in self.globals: self.globals[context_var] = ...
MergeCapture(glob, capture) ==
    [k \in DOMAIN glob \cup DOMAIN capture |->
        IF k \in DOMAIN glob THEN glob[k] ELSE capture[k]]

\* harness4.py:327-333: [raised, skills, globals]
Install(todo, store, glob) ==
    LET r == InstallLoop(todo, store, EmptyDict)
    IN [raised |-> r.raised,
        skills |-> r.skills,
        globals |-> IF r.raised THEN glob ELSE MergeCapture(glob, r.capture)]

(***************************************************************************)
(* Invocation snippets and their execution,                                *)
(* exec(invocation_code, self.globals, execution_context)                  *)
(* (harness4.py:335-345, 359-360).  Forms of a snippet:                    *)
(*   "output"     __output = fn(arg)                                       *)
(*   "vars"       __vars = {name: val}                                     *)
(*   "both"       __vars = {name: val}; __output = fn(arg)                 *)
(*   "assign"     name = val                                               *)
(*   "generator"  __generator = fn(arg)                                    *)
(*   "pass"       assigns nothing                                          *)
(***************************************************************************)
Args == TNames \cup {"missing_var"}

Snippet(kind, fn, arg, name, val) ==
    [kind |-> kind, fn |-> fn, arg |-> arg, name |-> name, val |-> val]

OutputSnippets ==
    {Snippet("output", "doubler", arg, "x", 1) : arg \in Args}
        \cup {Snippet("output", "helper", "x", "x", 1)}
VarsSnippets ==
    {Snippet("vars", "doubler", "x", "x", v) : v \in Vals}
        \cup {Snippet("vars", "doubler", "x", "done", 1)}
BothSnippets == {Snippet("both", "doubler", "x", "done", 1)}
AssignSnippets == {Snippet("assign", "doubler", "x", "x", 7)}
GeneratorSnippets == {Snippet("generator", "doubler", "language_model", "x", 1)}
PassSnippet == Snippet("pass", "doubler", "x", "x", 1)

\* snippets the call errand gives for a code or routine message
CallSnippets ==
    OutputSnippets \cup VarsSnippets \cup BothSnippets \cup {PassSnippet}

\* snippets the call errand gives for a generating_routine message
GeneratingCallSnippets ==
    GeneratorSnippets \cup {Snippet("generator", "doubler", "missing_var", "x", 1),
                            PassSnippet}

\* snippets the data errand gives
DataSnippets == VarsSnippets \cup AssignSnippets \cup {PassSnippet}

\* mutant: the invocation context starts empty
ExecutionContextEmpty(tid) == EmptyDict

\* execution_context = {tiding.python_name: tiding.content ...}
ExecutionContext(tid) == [n \in DOMAIN tid |-> tid[n].content]

\* the call fn(arg) in a snippet: a name is looked up in the execution
\* context (the locals of exec), then in globals; FNames and TNames are
\* disjoint, so fn is found in globals
Lookup(name, glob, context) ==
    IF name \in DOMAIN context THEN context[name] ELSE glob[name]
CallRaises(snip, glob, context) ==
    \/ snip.fn \notin DOMAIN glob
    \/ snip.arg \notin DOMAIN context \cup DOMAIN glob
CallValue(snip, glob, context) ==
    glob[snip.fn].ver * Lookup(snip.arg, glob, context)

\* The effect of exec on execution_context: whether it raised, and the
\* entries "__output", "__vars", "__generator" it left there.
Exec(snip, glob, context) ==
    LET calls == snip.kind \in {"output", "both", "generator"}
        raised == calls /\ CallRaises(snip, glob, context)
    IN [raised |-> raised,
        has_output |-> ~raised /\ snip.kind \in {"output", "both"},
        output |-> IF ~raised /\ snip.kind \in {"output", "both"}
                   THEN Some(CallValue(snip, glob, context)) ELSE NoValue,
        has_vars |-> snip.kind \in {"vars", "both"},
        vars |-> IF snip.kind \in {"vars", "both"}
                 THEN [n \in {snip.name} |-> snip.val] ELSE EmptyDict,
        has_generator |-> ~raised /\ snip.kind = "generator",
        assigned |-> IF snip.kind = "assign"
                     THEN [n \in {snip.name} |-> snip.val] ELSE EmptyDict]

(***************************************************************************)
(* Tidings (tidings.py:18-25) and their commit (harness4.py:346-357,       *)
(* 368-379).                                                               *)
(***************************************************************************)
Tiding(var_name, var_value, variable_descriptions, has_descriptions) ==
    [content |-> var_value,
     description |-> IF has_descriptions /\ var_name \in DOMAIN variable_descriptions
                     THEN variable_descriptions[var_name] ELSE ""]

\* mutant: an existing tiding is kept (setdefault instead of assignment)
UpsertIfAbsent(tid, vars, variable_descriptions, has_descriptions) ==
    [n \in DOMAIN tid \cup DOMAIN vars |->
        IF n \in DOMAIN tid THEN tid[n]
        ELSE Tiding(n, vars[n], variable_descriptions, has_descriptions)]

\* self.tidings[var_name] = Tiding(...) for every entry of the dict
Upsert(tid, vars, variable_descriptions, has_descriptions) ==
    [n \in DOMAIN tid \cup DOMAIN vars |->
        IF n \in DOMAIN vars
        THEN Tiding(n, vars[n], variable_descriptions, has_descriptions)
        ELSE tid[n]]

(***************************************************************************)
(* Notifications of a streaming routine (harness4.py:362-366).             *)
(***************************************************************************)
Notification(type, d, vars) ==
    [type |-> type, description |-> d, modified_vars |-> vars]
Notifications ==
    {Notification("step", "a", EmptyDict),
     Notification("step", "b", [k \in {"x"} |-> 1]),
     Notification("final", "", [k \in {"done"} |-> 1]),
     Notification("final", "", [k \in {"x"} |-> 7])}

RECURSIVE NonFinal(_)
NonFinal(seq) ==
    IF seq = <<>> THEN <<>>
    ELSE IF Head(seq).type = "final" THEN NonFinal(Tail(seq))
    ELSE <<Head(seq)>> \o NonFinal(Tail(seq))

(***************************************************************************)
(* State.                                                                  *)
(***************************************************************************)
VARIABLES
    skills,                \* FrameV4.skills: python_name -> stored skill
    tidings,               \* FrameV4.tidings: python_name -> tiding
    globals,               \* FrameV4.globals: the execution namespace
    last_mid,              \* FrameV4.last_mid
    next_mid,              \* mid of the next message the caller submits
    pc,                    \* the generator object of process_message
    msg,                   \* the arguments mid, message, message_type
    generate_not_return,   \* the argument generate_not_return
    ret,                   \* what FrameV4.generate returned to its caller
    message_type,          \* the local message_type once resolved
    error,                 \* the error the body raised, "" if none
    installed,             \* the local skills: what the pipeline returned
    invocation,            \* the invocation_code that was executed
    variable_descriptions, \* the local variable_descriptions, while it runs
    has_descriptions,      \* whether variable_descriptions is not None
    output,                \* the local __output
    out_vars,              \* the dict whose entries were upserted
    final,                 \* the local __final
    yielded,               \* elements the streaming routine has produced
    delivered,             \* notifications the consumer has received
    errands,               \* the errands run for the message, in order
    compilation_trace,     \* the entries written to FrameV4.compilation_trace
                           \* since the message was submitted
    prev_error,            \* the InvocationError of the message before, if any
    pre,                   \* skills, tidings, globals, last_mid when the
                           \* operation in control was called or resumed
    parked,                \* a suspended generator of process_message the
                           \* caller holds while a later message runs
    data_writes,           \* per tiding, data messages that upserted it (<= 2)
    response,              \* the streaming response of main.py: the async
                           \* generator behind one StreamingResponse
    text,                  \* a text handed to the text functions of the
                           \* harness and of the errands, and what they gave
    session                \* a session of scan_research.py: its research
                           \* artifacts file, the generator of do_research
                           \* or do_reporting, what do_reporting has read

store == <<skills, tidings, globals, last_mid>>
locals ==
    <<message_type, error, installed, invocation, variable_descriptions,
      has_descriptions, output, out_vars, final, yielded, delivered,
      errands, compilation_trace>>
call == <<next_mid, msg, generate_not_return, ret, prev_error, pre, parked>>
harness == <<store, pc, locals, call, data_writes>>
vars == <<harness, response, text, session>>

NoSnippet == Snippet("none", "doubler", "x", "x", 1)     \* invocation_code None
NoFinal == [present |-> FALSE, modified_vars |-> EmptyDict]       \* __final = {}
NoMsg == [mid |-> -1, content |-> <<>>, type |-> NoType]
NoRet == [kind |-> "nothing", value |-> NoValue]
NoGenerator == <<>>                  \* the caller holds no other generator
\* no response has been started
NoResponse ==
    [fn |-> "none", pc |-> "idle", events |-> <<>>, i |-> 0,
     do_research |-> FALSE, error_event_encountered |-> FALSE,
     research_events |-> 0, cancelled |-> FALSE, file |-> <<>>]
\* no text function has been called
NoText == [fn |-> "none", pc |-> "idle"]
\* what do_reporting has read: per artifact, the research run that
\* registered the item (0: not read)
NoArtifacts ==
    [task_prompt |-> 0, format_prompt |-> 0, topic_relevant_segments |-> 0,
     search_result_urls |-> 0, all_results |-> 0]
\* no research has run for the session: no artifacts file
NoSession ==
    [fn |-> "none", pc |-> "idle", run |-> 0, artifacts |-> <<>>,
     read |-> NoArtifacts, topics |-> 0]
GeneratorObject == [kind |-> "generator", value |-> NoValue]
ReturnedValue(v) == [kind |-> "value", value |-> v]

\* the bootstrap skill and namespace of new_instance (harness4.py:167-207)
LanguageModel ==
    [python_name |-> "language_model", ver |-> 0, mid |-> -1,
     docstring |-> <<"language_model.__doc__">>]
BootstrapSkills == [n \in {"language_model"} |-> LanguageModel]
BootstrapGlobals ==
    [n \in {"language_model", "math"} |->
        [name |-> n, ver |-> 0, mid |-> -1]]

Snapshot(sk, td, gl, lm) ==
    [skills |-> sk, tidings |-> td, globals |-> gl, last_mid |-> lm]

FreshLocals ==
    /\ message_type' = NoType
    /\ error' = ""
    /\ installed' = <<>>
    /\ invocation' = NoSnippet
    /\ variable_descriptions' = EmptyDict
    /\ has_descriptions' = FALSE
    /\ output' = NoValue
    /\ out_vars' = EmptyDict
    /\ final' = NoFinal
    /\ yielded' = <<>>
    /\ delivered' = <<>>
    /\ errands' = <<>>
    /\ compilation_trace' = <<>>

HarnessInit ==
    /\ skills = BootstrapSkills
    /\ tidings = EmptyDict
    /\ globals = BootstrapGlobals
    /\ last_mid = -1
    /\ next_mid = 0
    /\ pc = "idle"
    /\ msg = NoMsg
    /\ generate_not_return = FALSE
    /\ ret = NoRet
    /\ message_type = NoType
    /\ error = ""
    /\ installed = <<>>
    /\ invocation = NoSnippet
    /\ variable_descriptions = EmptyDict
    /\ has_descriptions = FALSE
    /\ output = NoValue
    /\ out_vars = EmptyDict
    /\ final = NoFinal
    /\ yielded = <<>>
    /\ delivered = <<>>
    /\ errands = <<>>
    /\ compilation_trace = <<>>
    /\ prev_error = ""
    /\ pre = Snapshot(BootstrapSkills, EmptyDict, BootstrapGlobals, -1)
    /\ parked = NoGenerator
    /\ data_writes = [n \in TNames |-> 0]
    /\ response = NoResponse
    /\ session = NoSession

Init ==
    /\ HarnessInit
    /\ text = NoText

(***************************************************************************)
(* new_instance (harness4.py:167-216), called between messages.            *)
(***************************************************************************)
\* mutant: the namespace survives the reset
NewInstanceKeepingGlobals ==
    /\ pc \in {"done", "failed", "closed"}
    /\ parked = NoGenerator
    /\ next_mid < MaxMid
    /\ skills' = BootstrapSkills
    /\ tidings' = EmptyDict
    /\ last_mid' = -1
    /\ pc' = "idle"
    /\ msg' = NoMsg
    /\ ret' = NoRet
    /\ prev_error' = ""
    /\ pre' = Snapshot(skills, tidings, globals, last_mid)
    /\ data_writes' = [n \in TNames |-> 0]
    /\ FreshLocals
    /\ UNCHANGED <<globals, next_mid, generate_not_return, parked, response, text, session>>

NewInstance ==
    /\ pc \in {"done", "failed", "closed"}
    /\ parked = NoGenerator
    /\ next_mid < MaxMid
    /\ skills' = BootstrapSkills
    /\ tidings' = EmptyDict
    /\ globals' = BootstrapGlobals
    /\ last_mid' = -1
    /\ pc' = "idle"
    /\ msg' = NoMsg
    /\ ret' = NoRet
    /\ prev_error' = ""
    /\ pre' = Snapshot(skills, tidings, globals, last_mid)
    /\ data_writes' = [n \in TNames |-> 0]
    /\ FreshLocals
    /\ UNCHANGED <<next_mid, generate_not_return, parked,
                   response, text, session>>

(***************************************************************************)
(* Calling process_message creates its generator object; no statement of   *)
(* the body has run.  FrameV4.generate (harness4.py:219-234) returns that  *)
(* object; generate_with_notifications (harness4.py:238-254) iterates it.  *)
(***************************************************************************)
CallProcessMessage(gnr, types) ==
    /\ pc \in {"idle", "done", "failed", "closed"}
    /\ next_mid < MaxMid
    /\ \E content \in Contents, type \in types :
          msg' = [mid |-> next_mid, content |-> content, type |-> type]
    /\ next_mid' = next_mid + 1
    /\ generate_not_return' = gnr
    /\ pc' = "created"
    /\ ret' = IF gnr THEN NoRet ELSE GeneratorObject
    /\ prev_error' = IF error = "InvocationError" THEN error ELSE ""
    /\ pre' = Snapshot(skills, tidings, globals, last_mid)
    /\ FreshLocals
    /\ UNCHANGED <<store, data_writes, parked,
                   response, text, session>>

Generate == CallProcessMessage(FALSE, GenerateTypes)

GenerateWithNotifications == CallProcessMessage(TRUE, GivenTypes)

(***************************************************************************)
(* The body of process_message (harness4.py:267-384).  The three ways a    *)
(* resumption ends: a raise, the end of the body, a yield.                 *)
(***************************************************************************)
\* mutant: a failing message rolls the skill store and the namespace back
RaiseRollback(err, mt, sk, gl, inst, snip, fin, yl) ==
    /\ pc' = "failed"
    /\ error' = err
    /\ message_type' = mt
    /\ installed' = inst
    /\ invocation' = snip
    /\ variable_descriptions' = EmptyDict
    /\ has_descriptions' = FALSE
    /\ final' = fin
    /\ yielded' = yl
    /\ UNCHANGED <<store, output, out_vars, delivered, call, data_writes,
                   response, text, session>>

Raise(err, mt, sk, gl, inst, snip, fin, yl) ==
    /\ pc' = "failed"
    /\ error' = err
    /\ message_type' = mt
    /\ skills' = sk
    /\ globals' = gl
    /\ installed' = inst
    /\ invocation' = snip
    /\ variable_descriptions' = EmptyDict
    /\ has_descriptions' = FALSE
    /\ final' = fin
    /\ yielded' = yl
    /\ UNCHANGED <<tidings, last_mid, output, out_vars, delivered, call, data_writes,
                   response, text, session>>

CountWrites(mt, writes, vars_written) ==
    [n \in TNames |->
        IF mt = "data" /\ n \in DOMAIN vars_written /\ writes[n] < 2
        THEN writes[n] + 1 ELSE writes[n]]

\* mutant: a message that ends forwards a notification carrying the
\* variables it committed
CompleteNotifying(mt, sk, gl, td, inst, snip, out, ov, fin, yl) ==
    /\ pc' = "done"
    /\ last_mid' = msg.mid
    /\ message_type' = mt
    /\ skills' = sk
    /\ globals' = gl
    /\ tidings' = td
    /\ installed' = inst
    /\ invocation' = snip
    /\ variable_descriptions' = EmptyDict
    /\ has_descriptions' = FALSE
    /\ output' = out
    /\ out_vars' = ov
    /\ final' = fin
    /\ yielded' = yl
    /\ delivered' = Append(delivered, Notification("final", "", ov))
    /\ data_writes' = CountWrites(mt, data_writes, ov)
    /\ UNCHANGED <<error, call, response, text, session>>

\* self.last_mid = mid; if not generate_not_return: return __output
Complete(mt, sk, gl, td, inst, snip, out, ov, fin, yl) ==
    /\ pc' = "done"
    /\ last_mid' = msg.mid
    /\ message_type' = mt
    /\ skills' = sk
    /\ globals' = gl
    /\ tidings' = td
    /\ installed' = inst
    /\ invocation' = snip
    /\ variable_descriptions' = EmptyDict
    /\ has_descriptions' = FALSE
    /\ output' = out
    /\ out_vars' = ov
    /\ final' = fin
    /\ yielded' = yl
    /\ data_writes' = CountWrites(mt, data_writes, ov)
    /\ UNCHANGED <<error, delivered, call,
                   response, text, session>>

\* mutant: the modified_vars of every notification are committed as it
\* is forwarded
YieldCommitting(notification, mt, sk, gl, inst, snip, vd, hvd, fin, yl) ==
    /\ pc' = "suspended"
    /\ delivered' = Append(delivered, notification)
    /\ tidings' = Upsert(tidings, notification.modified_vars, vd, hvd)
    /\ message_type' = mt
    /\ skills' = sk
    /\ globals' = gl
    /\ installed' = inst
    /\ invocation' = snip
    /\ variable_descriptions' = vd
    /\ has_descriptions' = hvd
    /\ final' = fin
    /\ yielded' = yl
    /\ UNCHANGED <<last_mid, error, output, out_vars, call, data_writes,
                   response, text, session>>

\* yield notification
Yield(notification, mt, sk, gl, inst, snip, vd, hvd, fin, yl) ==
    /\ pc' = "suspended"
    /\ delivered' = Append(delivered, notification)
    /\ message_type' = mt
    /\ skills' = sk
    /\ globals' = gl
    /\ installed' = inst
    /\ invocation' = snip
    /\ variable_descriptions' = vd
    /\ has_descriptions' = hvd
    /\ final' = fin
    /\ yielded' = yl
    /\ UNCHANGED <<tidings, last_mid, error, output, out_vars, call, data_writes,
                   response, text, session>>

\* the value StopIteration carries when the body ends (harness4.py:383-384)
StopValue == IF generate_not_return THEN NoValue ELSE output

(***************************************************************************)
(* for notification in __generator (harness4.py:361-379).  Within one      *)
(* resumption the loop takes the elements of type "final" the routine      *)
(* produces, until the routine yields another element (forwarded: the      *)
(* body suspends), is exhausted (the tidings of __final are committed) or  *)
(* raises.  The routine is lazy: what it produces is decided as it is      *)
(* pulled, at most MaxGenLen elements in all.                              *)
(***************************************************************************)
Finals == {n \in Notifications : n.type = "final"}
NonFinals == {n \in Notifications : n.type # "final"}
FinalRuns(room) == UNION {[1..k -> Finals] : k \in 0..room}

\* mutant: only the first element of type "final" is kept
FinalAfterFirst(fin, fs) ==
    IF fin.present \/ fs = <<>> THEN fin
    ELSE [present |-> TRUE, modified_vars |-> fs[1].modified_vars]

\* __final after the loop has taken the finals fs
FinalAfter(fin, fs) ==
    IF fs = <<>> THEN fin
    ELSE [present |-> TRUE, modified_vars |-> fs[Len(fs)].modified_vars]

\* mutant: without a final element the tiding store is emptied
CommitFinalReset(td, fin, vd, hvd) ==
    IF fin.present THEN Upsert(td, fin.modified_vars, vd, hvd) ELSE EmptyDict

\* if "modified_vars" in __final: upsert each entry
CommitFinal(td, fin, vd, hvd) ==
    IF fin.present THEN Upsert(td, fin.modified_vars, vd, hvd) ELSE td

\* mutant: only type and description of a notification are forwarded
ForwardedSummary(notification) ==
    Notification(notification.type, notification.description, EmptyDict)

\* yield notification: the element is forwarded as it is
ForwardedNotification(notification) == notification

\* mutant: the tidings of __final are committed also when the routine
\* raises after it has yielded an element of type "final"
LoopCommittingOnRaise(mt, sk, gl, inst, snip, vd, hvd, fin, yl) ==
    \E fs \in FinalRuns(MaxGenLen - Len(yl)) :
        LET fin2 == FinalAfter(fin, fs)
            yl2 == yl \o fs
        IN \/ \E n \in NonFinals :
                /\ Len(yl2) < MaxGenLen
                /\ Yield(ForwardedNotification(n), mt, sk, gl, inst, snip, vd,
                         hvd, fin2, Append(yl2, n))
           \/ Complete(mt, sk, gl, CommitFinal(tidings, fin2, vd, hvd), inst,
                       snip, NoValue, fin2.modified_vars, fin2, yl2)
           \/ /\ pc' = "failed"
              /\ error' = "RoutineError"
              /\ message_type' = mt
              /\ skills' = sk
              /\ globals' = gl
              /\ tidings' = CommitFinal(tidings, fin2, vd, hvd)
              /\ installed' = inst
              /\ invocation' = snip
              /\ variable_descriptions' = EmptyDict
              /\ has_descriptions' = FALSE
              /\ final' = fin2
              /\ yielded' = yl2
              /\ UNCHANGED <<last_mid, output, out_vars, delivered, call,
                             data_writes, response, text, session>>

Loop(mt, sk, gl, inst, snip, vd, hvd, fin, yl) ==
    \E fs \in FinalRuns(MaxGenLen - Len(yl)) :
        LET fin2 == FinalAfter(fin, fs)
            yl2 == yl \o fs
        IN \/ \E n \in NonFinals :
                /\ Len(yl2) < MaxGenLen
                /\ Yield(ForwardedNotification(n), mt, sk, gl, inst, snip, vd,
                         hvd, fin2, Append(yl2, n))
           \/ Complete(mt, sk, gl, CommitFinal(tidings, fin2, vd, hvd), inst,
                       snip, NoValue, fin2.modified_vars, fin2, yl2)
           \/ Raise("RoutineError", mt, sk, gl, inst, snip, fin2, yl2)

(***************************************************************************)
(* The compilation trace (trace.py:20-52, harness4.py:671-696).  Trace     *)
(* keeps the entries written to it in a list and only ever appends; an     *)
(* entry is modelled by the text the code puts in front and, where it      *)
(* names the message or the skill, the value it formats after it.  The     *)
(* time of day, the text of the invocation code and the text of the        *)
(* variable descriptions are left out of their entries.                    *)
(***************************************************************************)
Entry(head, value) == [head |-> head, value |-> value]

\* Trace.write_separator: self.write("#" * 80)
Separator ==
    Entry("################################################################################",
          <<>>)

write_separator(entries) == Append(entries, Separator)

\* the eight entries log_compilation_result writes for one skill
SkillEntries(skill) ==
    <<Entry("********************", <<>>),
      Entry("Skill name: ", skill.python_name),
      Entry("Python name: ", skill.python_name),
      Entry("Docstring:\n", skill.docstring),
      Entry("--------------------", <<>>),
      Entry("Code:\n", [ver |-> skill.ver, raises |-> skill.raises]),
      Entry("--------------------", <<>>),
      Entry("Source message:\n", skill.mid)>>

RECURSIVE AllSkillEntries(_)
AllSkillEntries(skill_list) ==
    IF skill_list = <<>> THEN <<>>
    ELSE SkillEntries(skill_list[1]) \o AllSkillEntries(Tail(skill_list))

\* mutant: the skills are set apart by separators
log_compilation_result_separated(entries, mid, skill_list, snip, vd, hvd) ==
    LET RECURSIVE Blocks(_)
        Blocks(l) ==
            IF l = <<>> THEN <<>>
            ELSE <<Separator>> \o Tail(SkillEntries(l[1])) \o Blocks(Tail(l))
    IN write_separator(
        write_separator(entries)
            \o <<Entry("Compiled message ", mid)>>
            \o (IF snip.kind # "none"
                THEN <<Entry("Invocation code: ", <<>>)>> ELSE <<>>)
            \o (IF hvd THEN <<Entry("Variable descriptions: ", <<>>)>> ELSE <<>>)
            \o Blocks(skill_list))

\* log_compilation_result (harness4.py:671-696); snip of kind "none" is
\* invocation_code None, hvd is variable_descriptions is not None
log_compilation_result(entries, mid, skill_list, snip, vd, hvd) ==
    write_separator(
        write_separator(entries)
            \o <<Entry("Compiled message ", mid)>>
            \o (IF snip.kind # "none"
                THEN <<Entry("Invocation code: ", <<>>)>> ELSE <<>>)
            \o (IF hvd THEN <<Entry("Variable descriptions: ", <<>>)>> ELSE <<>>)
            \o AllSkillEntries(skill_list))

(***************************************************************************)
(* harness4.py:325-381 for a terminal message and up to the loop for a     *)
(* streaming one: install the skills, build the execution context, exec    *)
(* the invocation, commit __vars.                                          *)
(***************************************************************************)
\* mutant: __vars is read but never committed
CommitVarsNever(td, e, vd, hvd) == td

\* if "__vars" in execution_context: upsert each entry
CommitVars(td, e, vd, hvd) ==
    IF e.has_vars THEN Upsert(td, e.vars, vd, hvd) ELSE td

\* mutant: the invocation is executed before the skills are installed
InvokeAndInstall(mt, inst, snip, vd, hvd) ==
    LET i == Install(inst, skills, globals)
        e == Exec(snip, globals, ExecutionContext(tidings))
    IN /\ compilation_trace' =
            log_compilation_result(compilation_trace, msg.mid, inst, snip, vd, hvd)
       /\ IF snip.kind # "none" /\ e.raised
          THEN Raise("InvocationError", mt, skills, globals, inst, snip,
                     NoFinal, <<>>)
          ELSE IF i.raised
          THEN Raise("InstallError", mt, i.skills, i.globals, inst, NoSnippet,
                     NoFinal, <<>>)
          ELSE IF snip.kind = "none"
          THEN Complete(mt, i.skills, i.globals, tidings, inst, snip, NoValue,
                        EmptyDict, NoFinal, <<>>)
          ELSE IF mt # "generating_routine"
          THEN Complete(mt, i.skills, i.globals, CommitVars(tidings, e, vd, hvd),
                        inst, snip, e.output, e.vars, NoFinal, <<>>)
          ELSE IF ~e.has_generator
          THEN Raise("MissingGenerator", mt, i.skills, i.globals, inst, snip,
                     NoFinal, <<>>)
          ELSE Loop(mt, i.skills, i.globals, inst, snip, vd, hvd, NoFinal, <<>>)

InstallAndInvoke(mt, inst, snip, vd, hvd) ==
    LET i == Install(inst, skills, globals)
        e == Exec(snip, i.globals, ExecutionContext(tidings))
    IN /\ compilation_trace' =
            log_compilation_result(compilation_trace, msg.mid, inst, snip, vd, hvd)
       /\ IF i.raised
          THEN Raise("InstallError", mt, i.skills, i.globals, inst, NoSnippet,
                     NoFinal, <<>>)
          ELSE IF snip.kind = "none"
          THEN Complete(mt, i.skills, i.globals, tidings, inst, snip, NoValue,
                        EmptyDict, NoFinal, <<>>)
          ELSE IF e.raised
          THEN Raise("InvocationError", mt, i.skills, i.globals, inst, snip,
                     NoFinal, <<>>)
          ELSE IF mt # "generating_routine"
          THEN Complete(mt, i.skills, i.globals, CommitVars(tidings, e, vd, hvd),
                        inst, snip, e.output, e.vars, NoFinal, <<>>)
          ELSE IF ~e.has_generator
          THEN Raise("MissingGenerator", mt, i.skills, i.globals, inst, snip,
                     NoFinal, <<>>)
          ELSE Loop(mt, i.skills, i.globals, inst, snip, vd, hvd, NoFinal, <<>>)

\* mutant: last_mid is set before the message is validated
RaiseEarlyAdvanced(err, mt) ==
    /\ pc' = "failed"
    /\ error' = err
    /\ message_type' = mt
    /\ last_mid' = msg.mid
    /\ installed' = <<>>
    /\ invocation' = NoSnippet
    /\ variable_descriptions' = EmptyDict
    /\ has_descriptions' = FALSE
    /\ final' = NoFinal
    /\ yielded' = <<>>
    /\ compilation_trace' = <<>>
    /\ UNCHANGED <<skills, tidings, globals, output, out_vars, delivered, call,
                   data_writes,
                   response, text, session>>

\* a failure before the pipeline has returned anything
RaiseEarly(err, mt) ==
    /\ Raise(err, mt, skills, globals, <<>>, NoSnippet, NoFinal, <<>>)
    /\ compilation_trace' = <<>>

(***************************************************************************)
(* Errands (errands4.py:24-35).  Errand.run calls runner.run once, in no   *)
(* try block, and no caller in harness4.py catches what it raises: a       *)
(* failure of the LM client ends the message.  `ran` is the list of the    *)
(* errands run so far for the message: designation, and whether the        *)
(* client gave a reply (ok) or failed.                                     *)
(***************************************************************************)
\* mutant: a failed call of the client is made a second time
ErrandRunRetrying(ran, designation, ok) ==
    IF ok THEN Append(ran, [designation |-> designation, ok |-> TRUE])
    ELSE ran \o <<[designation |-> designation, ok |-> FALSE],
                  [designation |-> designation, ok |-> FALSE]>>

\* ret = runner.run(self.pre_prompt, prompt_with_args, completion_config)
ErrandRun(ran, designation, ok) ==
    Append(ran, [designation |-> designation, ok |-> ok])

\* mutant: the failure of the client is handled by resetting the skill
\* store and the namespace
LMRaiseResetting(mt, ran, designation) ==
    /\ Raise("LMUnavailable", mt, BootstrapSkills, BootstrapGlobals, <<>>,
             NoSnippet, NoFinal, <<>>)
    /\ compilation_trace' = <<>>
    /\ errands' = ErrandRun(ran, designation, FALSE)

\* the client raises in the errand `designation`
LMRaise(mt, ran, designation) ==
    /\ RaiseEarly("LMUnavailable", mt)
    /\ errands' = ErrandRun(ran, designation, FALSE)

\* the designations find_errand_in_profile is called with
ProcessingErrand(mt) ==
    CASE mt = "code" -> "message_code_processing"
      [] mt = "routine" -> "message_routine_processing"
      [] mt = "generating_routine" -> "message_generating_routine_processing"

CallErrand(mt) ==
    CASE mt = "code" -> "message_code_call"
      [] mt = "routine" -> "message_routine_call"
      [] mt = "generating_routine" -> "message_generating_routine_call"

VariablesErrand(mt) ==
    IF mt = "code" THEN "message_code_variables"
    ELSE "message_routine_variables"

\* mutant: the call and variables errands run also when the synthesis
\* output holds no function
PrincipalPipelineInvoking(mt, call_snippets, ran) ==
    LET ran1 == ErrandRun(ran, ProcessingErrand(mt), TRUE)
        ran2 == ErrandRun(ran1, CallErrand(mt), TRUE)
        ran3 == ErrandRun(ran2, VariablesErrand(mt), TRUE)
    IN \/ LMRaise(mt, ran, ProcessingErrand(mt))
       \/ \E func_defs \in PrincipalReplies :
            LET p == PrincipalSkills(func_defs, msg.mid)
            IN IF p.raised
               THEN (RaiseEarly("SynthesisTypeError", mt) /\ errands' = ran1)
               ELSE \/ LMRaise(mt, ran1, CallErrand(mt))
                    \/ LMRaise(mt, ran2, VariablesErrand(mt))
                    \/ /\ \E snip \in call_snippets, vd \in VariableDescriptions :
                            InstallAndInvoke(mt, p.skills, snip, vd, TRUE)
                       /\ errands' = ran3

\* process_message_code and process_message_routine (harness4.py:408-490,
\* 528-632), then harness4.py:325-384
PrincipalPipeline(mt, call_snippets, ran) ==
    LET ran1 == ErrandRun(ran, ProcessingErrand(mt), TRUE)
        ran2 == ErrandRun(ran1, CallErrand(mt), TRUE)
        ran3 == ErrandRun(ran2, VariablesErrand(mt), TRUE)
    IN \/ LMRaise(mt, ran, ProcessingErrand(mt))
       \/ \E func_defs \in PrincipalReplies :
            LET p == PrincipalSkills(func_defs, msg.mid)
            IN IF p.raised
               THEN (RaiseEarly("SynthesisTypeError", mt) /\ errands' = ran1)
               ELSE IF p.skills = <<>>
               THEN (/\ InstallAndInvoke(mt, <<>>, NoSnippet, EmptyDict, FALSE)
                     /\ errands' = ran1)
               ELSE \/ LMRaise(mt, ran1, CallErrand(mt))
                    \/ LMRaise(mt, ran2, VariablesErrand(mt))
                    \/ /\ \E snip \in call_snippets, vd \in VariableDescriptions :
                            InstallAndInvoke(mt, p.skills, snip, vd, TRUE)
                       /\ errands' = ran3

\* mutant: as for a code message, a snippet that calls the skill is run
CodeSkillPipelineInvoking(mt, ran) ==
    LET ran1 == ErrandRun(ran, "message_code_skill_processing", TRUE)
    IN \/ LMRaise(mt, ran, "message_code_skill_processing")
       \/ /\ \E func_defs \in SynthReplies :
                LET p == AllSkills(func_defs, msg.mid)
                IN IF p.raised THEN RaiseEarly("SynthesisTypeError", mt)
                   ELSE \E snip \in CallSnippets :
                            InstallAndInvoke(mt, p.skills, snip, EmptyDict,
                                             FALSE)
          /\ errands' = ran1

\* process_message_code_skill (harness4.py:492-526)
CodeSkillPipeline(mt, ran) ==
    LET ran1 == ErrandRun(ran, "message_code_skill_processing", TRUE)
    IN \/ LMRaise(mt, ran, "message_code_skill_processing")
       \/ /\ \E func_defs \in SynthReplies :
                LET p == AllSkills(func_defs, msg.mid)
                IN IF p.raised THEN RaiseEarly("SynthesisTypeError", mt)
                   ELSE InstallAndInvoke(mt, p.skills, NoSnippet, EmptyDict,
                                         FALSE)
          /\ errands' = ran1

\* process_message_data (harness4.py:634-648)
DataPipeline(mt, ran) ==
    \/ LMRaise(mt, ran, "message_data_processing")
    \/ /\ \E snip \in DataSnippets :
            InstallAndInvoke(mt, <<>>, snip, EmptyDict, FALSE)
       /\ errands' = ErrandRun(ran, "message_data_processing", TRUE)

\* harness4.py:295-323
Dispatch(mt, ran) ==
    CASE mt = "code" -> PrincipalPipeline(mt, CallSnippets, ran)
      [] mt = "code_skill" -> CodeSkillPipeline(mt, ran)
      [] mt = "routine" -> PrincipalPipeline(mt, CallSnippets, ran)
      [] mt = "generating_routine" ->
            IF ~generate_not_return
            THEN (RaiseEarly("MustGenerate", mt) /\ errands' = ran)
            ELSE PrincipalPipeline(mt, GeneratingCallSnippets, ran)
      [] mt = "data" -> DataPipeline(mt, ran)
      [] OTHER -> (RaiseEarly("NotImplemented", mt) /\ errands' = ran)

(***************************************************************************)
(* The first resumption of the generator: harness4.py:267-289, then the    *)
(* dispatch.                                                               *)
(***************************************************************************)
Start ==
    /\ pc = "created"
    /\ IF Strip(msg.content) = <<>>
       THEN (RaiseEarly("EmptyMessage", NoType) /\ errands' = <<>>)
       ELSE LET given == IF msg.type = NoType THEN "auto" ELSE msg.type
            IN IF given \notin Range(allowed_message_types)
               THEN (RaiseEarly("InvalidType", given) /\ errands' = <<>>)
               ELSE IF given = "auto"
               THEN \/ LMRaise("auto", <<>>, "message_type")
                    \/ \E raw_completion \in TypeReplies :
                        LET d == DecideMessageType(raw_completion)
                            ran == ErrandRun(<<>>, "message_type", TRUE)
                        IN IF d.raised
                           THEN (/\ RaiseEarly("ClassificationFailed", "auto")
                                 /\ errands' = ran)
                           ELSE Dispatch(d.message_type, ran)
               ELSE Dispatch(given, <<>>)

\* a later resumption: the consumer pulls the next notification
Resume ==
    /\ pc = "suspended"
    /\ Loop(message_type, skills, globals, installed, invocation,
            variable_descriptions, has_descriptions, final, yielded)
    /\ UNCHANGED <<errands, compilation_trace>>

\* mutant: closing the generator commits the modified_vars of the last
\* notification it forwarded
AbandonCommitting ==
    /\ pc = "suspended"
    /\ pc' = "closed"
    /\ tidings' = Upsert(tidings, delivered[Len(delivered)].modified_vars,
                         variable_descriptions, has_descriptions)
    /\ UNCHANGED <<skills, globals, last_mid, locals, call, data_writes,
                   response, text, session>>

\* the consumer stops pulling: the suspended generator is closed
Abandon ==
    /\ pc = "suspended"
    /\ pc' = "closed"
    /\ UNCHANGED <<store, locals, call, data_writes,
                   response, text, session>>

(***************************************************************************)
(* generate_with_notifications (harness4.py:238-254) returns a generator   *)
(* and FrameV4 keeps no record of it: while the generator of a streaming   *)
(* message is suspended at its yield, the caller can submit the next       *)
(* message to the same FrameV4, and pull the suspended generator again     *)
(* once that message has ended.                                            *)
(***************************************************************************)
SuspendedGenerator ==
    [msg |-> msg, message_type |-> message_type, installed |-> installed,
     invocation |-> invocation,
     variable_descriptions |-> variable_descriptions,
     has_descriptions |-> has_descriptions, final |-> final,
     yielded |-> yielded, delivered |-> delivered, errands |-> errands,
     compilation_trace |-> compilation_trace]

GenerateWhileSuspended ==
    /\ pc = "suspended"
    /\ parked = NoGenerator
    /\ next_mid < MaxMid
    /\ parked' = <<SuspendedGenerator>>
    /\ \E content \in Contents, type \in InterleavedTypes :
          msg' = [mid |-> next_mid, content |-> content, type |-> type]
    /\ next_mid' = next_mid + 1
    /\ generate_not_return' = TRUE
    /\ pc' = "created"
    /\ ret' = NoRet
    /\ prev_error' = ""
    /\ pre' = Snapshot(skills, tidings, globals, last_mid)
    /\ FreshLocals
    /\ UNCHANGED <<store, data_writes,
                   response, text, session>>

\* the later message has ended; the caller turns to the generator it holds
ReturnToSuspended ==
    /\ pc \in {"done", "failed", "closed"}
    /\ parked # NoGenerator
    /\ pc' = "suspended"
    /\ msg' = parked[1].msg
    /\ message_type' = parked[1].message_type
    /\ installed' = parked[1].installed
    /\ invocation' = parked[1].invocation
    /\ variable_descriptions' = parked[1].variable_descriptions
    /\ has_descriptions' = parked[1].has_descriptions
    /\ final' = parked[1].final
    /\ yielded' = parked[1].yielded
    /\ delivered' = parked[1].delivered
    /\ errands' = parked[1].errands
    /\ compilation_trace' = parked[1].compilation_trace \o compilation_trace
    /\ error' = ""
    /\ output' = NoValue
    /\ out_vars' = EmptyDict
    /\ prev_error' = ""
    /\ pre' = Snapshot(skills, tidings, globals, last_mid)
    /\ parked' = NoGenerator
    /\ UNCHANGED <<store, next_mid, generate_not_return, ret, data_writes,
                   response, text, session>>

Next ==
    \/ Generate
    \/ GenerateWithNotifications
    \/ Start
    \/ Resume
    \/ Abandon
    \/ NewInstance

\* a caller that pulls every generator to its end, or closes it, before it
\* submits the next message (main.py:437-453)
Spec == Init /\ [][Next]_vars

\* a caller that also submits a message while it holds a suspended
\* generator
InterleavedNext ==
    \/ Next
    \/ GenerateWhileSuspended
    \/ ReturnToSuspended

InterleavedSpec == Init /\ [][InterleavedNext]_vars

(***************************************************************************)
(* The streaming responses of main.py: the async generators                *)
(* stream_research_events (main.py:207-262) and stream_research2_events    *)
(* (main.py:359-471), pulled by the consumer of a StreamingResponse.  An   *)
(* event is modelled by its type.  response.pc is the point at which the   *)
(* generator stands: "y_..." suspended at a yield, the event handed to     *)
(* the consumer; "await_..." inside an await of the research or reporting  *)
(* generator.  stream_research2_events awaits nothing: its loop over the   *)
(* harness is synchronous, and what the harness gives for a message is     *)
(* drawn here from its possible outcomes.                                  *)
(***************************************************************************)
\* the messages stream_research2_events builds (main.py:402-435)
Messages2 == <<"code_skill", "data", "generating_routine">>
\* types of the events of the research generator: a step, the "error" of
\* scan_research.py:129-134, and, replayed from a recorded events file by
\* scan_research_dry.py:53-64, "started"
ResearchEventTypes == {"progress", "error", "started"}
\* types of the events of the reporting generator: a step and the "error"
\* of scan_research_dry.py:90-95
ReportingEventTypes == {"report", "error"}

\* mutant: the events file is opened for writing, as store_items does
register_item_overwriting(file, item) == <<item>>

\* items.register_item (items.py:79-100): the item is appended to the file
register_item(file, item) == Append(file, item)

\* yield make_message({"type": type, ...}, session_key): the event is
\* registered in the events file of the session (response.file), then
\* handed to the consumer
Emit(r, type, at) ==
    [r EXCEPT !.file = register_item(@, type),
              !.events = Append(@, type),
              !.pc = at]

\* the first __anext__: the body runs to its first yield
StartResponse ==
    /\ response.pc = "idle"
    /\ \/ response' = Emit([NoResponse EXCEPT !.fn = "stream_research2_events"],
                           "started", "y_started")
       \/ \E do_research \in BOOLEAN :
            response' = Emit([NoResponse EXCEPT !.fn = "stream_research_events",
                                                !.do_research = do_research],
                             "started", "y_started")
    /\ UNCHANGED <<harness, text, session>>

\* a later request to /api/research that names the session_key of a
\* response that has ended (main.py:184): its events go to the same file
ContinueSession ==
    /\ response.fn = "stream_research_events"
    /\ response.pc \in {"returned", "raised", "closed", "propagated"}
    /\ Len(response.file) < MaxEvents
    /\ \E do_research \in BOOLEAN :
            response' = Emit([NoResponse EXCEPT !.fn = "stream_research_events",
                                                !.do_research = do_research,
                                                !.file = response.file],
                             "started", "y_started")
    /\ UNCHANGED <<harness, text, session>>

\* for i in range(len(messages)) (main.py:437-461), entered for message i
NextMessage2(r, i) ==
    IF i <= Len(Messages2)
    THEN Emit([r EXCEPT !.i = i], "generic", "y_generic")
    ELSE Emit([r EXCEPT !.i = i], "completed", "y_completed")

\* a later __anext__ of stream_research2_events
Pull2 ==
    /\ response.fn = "stream_research2_events"
    /\ \/ /\ response.pc = "y_started"
          /\ response' = NextMessage2(response, 1)
       \/ /\ response.pc \in {"y_generic", "y_notification"}
          /\ \/ /\ Messages2[response.i] = "generating_routine"
                /\ Len(response.file) < MaxEvents
                /\ response' = Emit(response, "notification", "y_notification")
             \/ response' = NextMessage2(response, response.i + 1)
             \/ response' = [response EXCEPT !.pc = "raised"]
       \/ /\ response.pc = "y_completed"
          /\ response' = [response EXCEPT !.pc = "returned"]
    /\ UNCHANGED <<harness, text, session>>

\* a later __anext__ of stream_research_events: the body runs to its next
\* await
PullResearch ==
    /\ response.fn = "stream_research_events"
    /\ \/ /\ response.pc = "y_started"
          /\ response' = [response EXCEPT !.pc =
                IF response.do_research THEN "await_research"
                ELSE "await_reporting"]
       \/ /\ response.pc = "y_research"
          /\ response' = [response EXCEPT !.pc = "await_research"]
       \/ /\ response.pc = "y_reporting"
          /\ response' = [response EXCEPT !.pc = "await_reporting"]
       \/ /\ response.pc = "y_completed"
          /\ response' = [response EXCEPT !.pc = "returned"]
    /\ UNCHANGED <<harness, text, session>>

\* mutant: an event of type "error" is emitted but not remembered
ResearchFnForgettingError ==
    /\ response.pc = "await_research"
    /\ \/ /\ Len(response.file) < MaxEvents
          /\ \E t \in ResearchEventTypes :
                response' =
                    Emit([response EXCEPT !.research_events = @ + 1],
                         t, "y_research")
       \/ response' = [response EXCEPT !.pc =
                IF response.error_event_encountered THEN "returned"
                ELSE "await_reporting"]
       \/ response' = [response EXCEPT !.pc = "raised"]
    /\ UNCHANGED <<harness, text, session>>

\* async for event in research_fn (main.py:235-239)
ResearchFn ==
    /\ response.pc = "await_research"
    /\ \/ /\ Len(response.file) < MaxEvents
          /\ \E t \in ResearchEventTypes :
                response' =
                    Emit([response EXCEPT !.error_event_encountered =
                                              @ \/ t = "error",
                                          !.research_events = @ + 1],
                         t, "y_research")
       \/ response' = [response EXCEPT !.pc =
                IF response.error_event_encountered THEN "returned"
                ELSE "await_reporting"]
       \/ response' = [response EXCEPT !.pc = "raised"]
    /\ UNCHANGED <<harness, text, session>>

\* async for event in reporting_fn, then "completed" (main.py:241-252)
ReportingFn ==
    /\ response.pc = "await_reporting"
    /\ \/ /\ Len(response.file) < MaxEvents
          /\ \E t \in ReportingEventTypes :
                response' = Emit(response, t, "y_reporting")
       \/ response' = Emit(response, "completed", "y_completed")
       \/ response' = [response EXCEPT !.pc = "raised"]
    /\ UNCHANGED <<harness, text, session>>

(***************************************************************************)
(* Cancellation of the task that consumes the response.  asyncio raises   *)
(* CancelledError at the await at which the task is suspended.  Inside an  *)
(* await of the generator, that is inside its try block: the handler       *)
(* (main.py:253-262, 462-471) yields "cancelled" and re-raises when it is  *)
(* pulled again.  With the generator suspended at a yield, the task is     *)
(* suspended in the consumer: CancelledError is raised there, and the      *)
(* generator is closed by GeneratorExit, which the handler does not catch. *)
(***************************************************************************)
Awaits == {"await_research", "await_reporting"}
Yields ==
    {"y_started", "y_generic", "y_notification", "y_research", "y_reporting",
     "y_completed"}

Cancel ==
    /\ ~response.cancelled
    /\ \/ /\ response.pc \in Awaits
          /\ response' = Emit([response EXCEPT !.cancelled = TRUE],
                              "cancelled", "y_cancelled")
       \/ /\ response.pc \in Yields
          /\ response' = [response EXCEPT !.cancelled = TRUE, !.pc = "closed"]
    /\ UNCHANGED <<harness, text, session>>

\* raise, after the "cancelled" event has been taken
PullAfterCancelled ==
    /\ response.pc = "y_cancelled"
    /\ response' = [response EXCEPT !.pc = "propagated"]
    /\ UNCHANGED <<harness, text, session>>

StreamNext ==
    \/ StartResponse
    \/ ContinueSession
    \/ Pull2
    \/ PullResearch
    \/ ResearchFn
    \/ ReportingFn
    \/ Cancel
    \/ PullAfterCancelled

StreamSpec == Init /\ [][StreamNext]_vars

(***************************************************************************)
(* The text functions of the synthesis pipelines: sanitize_code            *)
(* (harness4.py:754-775) and extract_function_definitions                  *)
(* (harness4.py:712-752).  A string is the list of the pieces that "\n"    *)
(* separates (never empty: the empty string is <<"">>).  A line is one of: *)
(*   ""  " "             an empty line, a line of blanks;                  *)
(*   "<nbsp>"            a line holding a no-break space: white space for  *)
(*                       str.strip, an invalid character for ast.parse;    *)
(*   "~~~"  "~~~python"  the fence markers ``` and ```python (~ is       *)
(*                       written for the backquote);                       *)
(*   "def doubler" ...   a complete top-level function definition;         *)
(*   "x = 1 \\"          a statement that ends with a line continuation;   *)
(*   "("                 text at which ast.parse fails.                    *)
(***************************************************************************)
SrcLines ==
    {"", " ", "<nbsp>", "~~~", "~~~python", "def doubler", "def helper",
     "x = 1 \\", "("}
BlankLines == {"", " ", "<nbsp>"}
FenceLines == {"~~~python", "~~~"}
FunctionLines == {"def doubler", "def helper"}
Sources == UNION {[1..n -> SrcLines] : n \in 1..MaxSrcLines}
\* the forms of a synthesis output: fenced with ```python, with ```, bare
Fences == {"~~~python", "~~~", "none"}

\* "```python\n<src>\n```", "```\n<src>\n```", "<src>"
Wrap(fence, src) ==
    IF fence = "none" THEN src ELSE <<fence>> \o src \o <<"~~~">>

\* str.strip() of a line
StripLine(line) == IF line \in BlankLines THEN "" ELSE line

\* str.splitlines(): a final line break starts no further line
splitlines(string) ==
    IF string[Len(string)] = "" THEN SubSeq(string, 1, Len(string) - 1)
    ELSE string

\* "\n".join(lines)
join(lines) == IF lines = <<>> THEN <<"">> ELSE lines

Front(lines) == SubSeq(lines, 1, Len(lines) - 1)

sanitize_code(code) ==
    LET lines0 == splitlines(code)
        lines1 == IF Len(lines0) > 0 /\ StripLine(lines0[1]) = ""
                  THEN Tail(lines0) ELSE lines0
        lines2 == IF Len(lines1) > 0 /\ StripLine(lines1[Len(lines1)]) = ""
                  THEN Front(lines1) ELSE lines1
        lines3 == IF Len(lines2) > 0 /\ StripLine(lines2[1]) \in FenceLines
                  THEN Tail(lines2) ELSE lines2
        lines4 == IF Len(lines3) > 0 /\ StripLine(lines3[Len(lines3)]) \in FenceLines
                  THEN Front(lines3) ELSE lines3
    IN join(lines4)

\* node.name
NodeName(line) == IF line = "def doubler" THEN "doubler" ELSE "helper"

\* for node in tree.body: if isinstance(node, ast.FunctionDef): ...
RECURSIVE TopLevelFunctions(_)
TopLevelFunctions(code) ==
    IF code = <<>> THEN <<>>
    ELSE IF Head(code) \in FunctionLines
         THEN <<[python_name |-> NodeName(Head(code)), code |-> Head(code)]>>
              \o TopLevelFunctions(Tail(code))
         ELSE TopLevelFunctions(Tail(code))

\* ast.parse(code) succeeds.  It fails on a fence marker as on any text
\* that is not Python; a line continuation needs text after its line
\* break, and joins the next line, here a blank one, to its statement
Parses(code) ==
    \A i \in DOMAIN code :
        /\ code[i] \notin FenceLines \cup {"(", "<nbsp>"}
        /\ code[i] = "x = 1 \\"
            => /\ i < Len(code)
               /\ code[i + 1] \in {"", " "}
               /\ ~(i + 1 = Len(code) /\ code[i + 1] = "")

extract_function_definitions(code) ==
    IF ~Parses(code) THEN <<>> ELSE TopLevelFunctions(code)

\* the synthesis outputs: every source text in every form
SynthesisTexts ==
    {[fn |-> "synthesis", pc |-> "reply", src |-> src, fence |-> fence,
      code |-> Wrap(fence, src), func_defs |-> <<>>] :
        src \in Sources, fence \in Fences}

\* code = self.sanitize_code(code)
SanitizeCode ==
    /\ text.fn = "synthesis"
    /\ text.pc = "reply"
    /\ text' = [text EXCEPT !.code = sanitize_code(@), !.pc = "sanitized"]
    /\ UNCHANGED <<harness, response, session>>

\* func_defs = self.extract_function_definitions(code)
ExtractFunctionDefinitions ==
    /\ text.fn = "synthesis"
    /\ text.pc = "sanitized"
    /\ text' = [text EXCEPT !.func_defs = extract_function_definitions(text.code),
                            !.pc = "extracted"]
    /\ UNCHANGED <<harness, response, session>>

(***************************************************************************)
(* Errand.run (errands4.py:29-35): the prompt sent to the client.  A       *)
(* prompt is a sequence of atoms; the token {name} is one atom.  args is   *)
(* a dict: the list of its items in insertion order, an item being         *)
(* <<arg_name, arg_value>> with arg_value a sequence of atoms.             *)
(***************************************************************************)
ArgNames == {"message", "tidings"}
\* "{" + arg_name + "}"
Token(arg_name) ==
    CASE arg_name = "message" -> "{message}"
      [] arg_name = "tidings" -> "{tidings}"
      [] arg_name = "skills" -> "{skills}"

PromptAtoms == {"a", Token("message"), Token("tidings"), Token("skills")}
Prompts == UNION {[1..n -> PromptAtoms] : n \in 0..MaxPromptLen}
ArgValues == {<<"hello">>, <<Token("tidings")>>, <<Token("message"), "b">>}
ArgDicts ==
    {<<>>}
        \cup {<<<<n, v>>>> : n \in ArgNames, v \in ArgValues}
        \cup {<<<<n[1], v1>>, <<n[2], v2>>>> :
                n \in {m \in ArgNames \X ArgNames : m[1] # m[2]},
                v1 \in ArgValues, v2 \in ArgValues}

\* mutant: str.replace(old, new, 1)
RECURSIVE ReplaceOnce(_, _, _)
ReplaceOnce(string, old, new) ==
    IF string = <<>> THEN <<>>
    ELSE IF Head(string) = old THEN new \o Tail(string)
    ELSE <<Head(string)>> \o ReplaceOnce(Tail(string), old, new)

\* str.replace(old, new): every occurrence, what was put in is not searched
RECURSIVE Replace(_, _, _)
Replace(string, old, new) ==
    IF string = <<>> THEN <<>>
    ELSE IF Head(string) = old THEN new \o Replace(Tail(string), old, new)
    ELSE <<Head(string)>> \o Replace(Tail(string), old, new)

\* for arg_name, arg_value in args.items():
\*     prompt_with_args = prompt_with_args.replace("{" + arg_name + "}", arg_value)
RECURSIVE PromptWithArgs(_, _)
PromptWithArgs(prompt_with_args, args) ==
    IF args = <<>> THEN prompt_with_args
    ELSE PromptWithArgs(Replace(prompt_with_args, Token(Head(args)[1]),
                                Head(args)[2]),
                        Tail(args))

ErrandTexts ==
    {[fn |-> "errand", pc |-> "created", prompt |-> prompt, args |-> args,
      sent |-> <<>>] : prompt \in Prompts, args \in ArgDicts}

\* Errand.run, up to the call of runner.run
RunErrand ==
    /\ text.fn = "errand"
    /\ text.pc = "created"
    /\ text' = [text EXCEPT !.sent = PromptWithArgs(text.prompt, text.args),
                            !.pc = "sent"]
    /\ UNCHANGED <<harness, response, session>>

(***************************************************************************)
(* MultipleChoiceErrand.run (errands4.py:60-69) on the reply of the LM.    *)
(***************************************************************************)
\* lists of choices an errand is constructed with (errands4.py:56-58)
ChoiceLists == {MessageTypeChoices, <<"code", "code_skill", "data">>}

ChoiceTexts ==
    {[fn |-> "multiple_choice", pc |-> "created", choices |-> choices,
      raw_completion |-> raw_completion, ret |-> NoType] :
        choices \in ChoiceLists, raw_completion \in AllReplies}

RunMultipleChoice ==
    /\ text.fn = "multiple_choice"
    /\ text.pc = "created"
    /\ text' = [text EXCEPT !.ret = FirstChoice(text.choices, text.raw_completion),
                            !.pc = "returned"]
    /\ UNCHANGED <<harness, response, session>>

\* decide_message_type (harness4.py:386-405) on a reply of the LM
TypeTexts ==
    {[fn |-> "decide_message_type", pc |-> "created",
      raw_completion |-> raw_completion, raised |-> FALSE,
      message_type |-> NoType] :
        raw_completion \in AllReplies}

DecideMessageTypeCall ==
    /\ text.fn = "decide_message_type"
    /\ text.pc = "created"
    /\ LET d == DecideMessageType(text.raw_completion)
       IN text' = [text EXCEPT !.raised = d.raised,
                               !.message_type = d.message_type,
                               !.pc = "returned"]
    /\ UNCHANGED <<harness, response, session>>

(***************************************************************************)
(* From the function definitions of a synthesis output to the skill store: *)
(* the skills a pipeline builds (harness4.py:433-449, 510-526, 570-586)    *)
(* and the install loop of process_message (harness4.py:327-333), on the   *)
(* store of a new instance.                                                *)
(***************************************************************************)
SkillTexts ==
    {[fn |-> "skills", pc |-> "extracted", message_type |-> mt, mid |-> mid,
      func_defs |-> func_defs, raised |-> FALSE, skill_list |-> <<>>,
      stored |-> BootstrapSkills] :
        mt \in {"code", "routine", "generating_routine", "code_skill"},
        mid \in 0..(MaxMid - 1), func_defs \in SynthReplies}

\* skills = [] ... skills.append(SkillV4(...))
BuildSkills ==
    /\ text.fn = "skills"
    /\ text.pc = "extracted"
    /\ LET p == IF text.message_type = "code_skill"
                THEN AllSkills(text.func_defs, text.mid)
                ELSE PrincipalSkills(text.func_defs, text.mid)
       IN text' = [text EXCEPT !.raised = p.raised, !.skill_list = p.skills,
                               !.pc = "built"]
    /\ UNCHANGED <<harness, response, session>>

\* for skill in skills: exec(...); self.skills[skill.name] = skill
InstallSkills ==
    /\ text.fn = "skills"
    /\ text.pc = "built"
    /\ ~text.raised
    /\ LET i == Install(text.skill_list, skills, globals)
       IN text' = [text EXCEPT !.raised = i.raised, !.stored = i.skills,
                               !.pc = "installed"]
    /\ UNCHANGED <<harness, response, session>>

TextInit ==
    /\ HarnessInit
    /\ text \in SynthesisTexts \cup ErrandTexts \cup ChoiceTexts \cup SkillTexts
                \cup TypeTexts

TextNext ==
    \/ SanitizeCode
    \/ ExtractFunctionDefinitions
    \/ RunErrand
    \/ RunMultipleChoice
    \/ DecideMessageTypeCall
    \/ BuildSkills
    \/ InstallSkills

TextSpec == TextInit /\ [][TextNext]_vars

(***************************************************************************)
(* The research artifacts of a session (scan_research.py:50-371,           *)
(* items.py:52-115).  The artifacts file of a session is the list of the   *)
(* items registered in it; an item is modelled by its type and by the      *)
(* research run that registered it, which stands for its content.          *)
(* do_research and do_reporting are async generators: session.pc is the    *)
(* yield at which the generator is suspended.  The searches made for the   *)
(* phrases of a topic (scan_research.py:190-258) register items that       *)
(* do_reporting never reads; a topic is taken with no search phrase.       *)
(***************************************************************************)
Item(type, run) == [type |-> type, run |-> run]
NoItem == Item("<None>", 0)

\* items.find_item_by_type: next((item for item in items if ...), None),
\* items being the lines of the file, [] when there is no file
find_item_by_type(file, item_type) ==
    LET items == file
        hits == {i \in DOMAIN items : items[i].type = item_type}
    IN IF hits = {} THEN NoItem
       ELSE items[CHOOSE i \in hits : \A j \in hits : i <= j]

RECURSIVE register_items(_, _)
register_items(file, items) ==
    IF items = <<>> THEN file
    ELSE register_items(register_item(file, Head(items)), Tail(items))

Ended == {"returned", "raised", "cancelled", "closed"}
ResearchYields ==
    {"y_prompt_received", "y_error", "y_prompt_analysis_started",
     "y_prompt_analysis_completed", "y_task_analysis_completed",
     "y_topic_exploration_started", "y_topic_exploration_completed",
     "y_aggregation_started", "y_research_completed"}
ReportingYields == {"y_report_building", "y_report_processing", "y_report_done"}

\* the generator of do_research moves on and registers the items
Research(at, items) ==
    session' = [session EXCEPT !.pc = at,
                               !.artifacts = register_items(@, items)]

\* a request that starts from research (main.py:187-191, 235-236): the
\* body of do_research up to its first yield (scan_research.py:113-121)
DoResearch ==
    /\ session.pc \in Ended \cup {"idle"}
    /\ session.run < MaxRuns
    /\ session' =
            [fn |-> "do_research", pc |-> "y_prompt_received",
             run |-> session.run + 1,
             artifacts |-> register_item(session.artifacts,
                                         Item("prompt", session.run + 1)),
             read |-> NoArtifacts, topics |-> 0]
    /\ UNCHANGED <<harness, response, text>>

\* for topic in topics: the next topic, or the aggregation
NextTopic ==
    IF session.topics > 0
    THEN Research("y_topic_exploration_started", <<>>)
    ELSE Research("y_aggregation_started", <<>>)

\* a later __anext__ of do_research (scan_research.py:123-284); a call of
\* the LM client may raise
ResearchStep ==
    /\ session.fn = "do_research"
    /\ LET run == session.run
       IN CASE session.pc = "y_prompt_received" ->
                \/ Research("raised", <<>>)
                \/ Research("y_error", <<Item("prompt_validity", run)>>)
                \/ Research("y_prompt_analysis_started",
                            <<Item("prompt_validity", run)>>)
            [] session.pc = "y_error" -> Research("returned", <<>>)
            [] session.pc = "y_prompt_analysis_started" ->
                \/ Research("raised", <<>>)
                \/ Research("y_prompt_analysis_completed",
                            <<Item("task_prompt", run),
                              Item("format_prompt", run)>>)
            [] session.pc = "y_prompt_analysis_completed" ->
                \/ Research("raised", <<>>)
                \/ \E n \in 0..MaxTopics :
                        session' =
                            [session EXCEPT
                                !.pc = "y_task_analysis_completed",
                                !.topics = n,
                                !.artifacts =
                                    register_item(@, Item("topics", run))]
            [] session.pc = "y_task_analysis_completed" -> NextTopic
            [] session.pc = "y_topic_exploration_started" ->
                \/ Research("raised", <<>>)
                \/ session' =
                        [session EXCEPT
                            !.pc = "y_topic_exploration_completed",
                            !.topics = @ - 1,
                            !.artifacts =
                                register_item(@, Item("topic_search_phrases",
                                                      run))]
            [] session.pc = "y_topic_exploration_completed" -> NextTopic
            [] session.pc = "y_aggregation_started" ->
                Research("await_sleep",
                         <<Item("topic_relevant_segments", run),
                           Item("all_results", run)>>)
            [] session.pc = "await_sleep" ->
                \/ Research("y_research_completed", <<>>)
                \/ Research("cancelled", <<>>)
            [] session.pc = "y_research_completed" ->
                Research("returned", <<>>)
            [] OTHER -> FALSE
    /\ UNCHANGED <<harness, response, text>>

\* the consumer stops pulling: the suspended generator is closed
CloseResearch ==
    /\ session.fn = "do_research"
    /\ session.pc \in ResearchYields
    /\ session' = [session EXCEPT !.pc = "closed"]
    /\ UNCHANGED <<harness, response, text>>

\* scan_research.py:312-326: the five reads of do_reporting, in order;
\* find_item_by_type gives None for a type that is not in the file and
\* the subscript of None raises
ReadArtifacts(file) ==
    LET task_prompt == find_item_by_type(file, "task_prompt")
        format_prompt == find_item_by_type(file, "format_prompt")
        segments == find_item_by_type(file, "topic_relevant_segments")
        all_results == find_item_by_type(file, "all_results")
    IN IF task_prompt = NoItem THEN [raised |-> TRUE, read |-> NoArtifacts]
       ELSE IF format_prompt = NoItem
       THEN [raised |-> TRUE,
             read |-> [NoArtifacts EXCEPT !.task_prompt = task_prompt.run]]
       ELSE IF segments = NoItem
       THEN [raised |-> TRUE,
             read |-> [NoArtifacts EXCEPT
                          !.task_prompt = task_prompt.run,
                          !.format_prompt = format_prompt.run]]
       ELSE [raised |-> all_results = NoItem,
             read |-> [task_prompt |-> task_prompt.run,
                       format_prompt |-> format_prompt.run,
                       topic_relevant_segments |-> segments.run,
                       search_result_urls |-> segments.run,
                       all_results |-> all_results.run]]

\* a request that reports for the session (main.py:192, 242): the body of
\* do_reporting up to its first yield (scan_research.py:310-331)
DoReporting ==
    /\ session.pc \in Ended \cup {"idle"}
    /\ LET r == ReadArtifacts(session.artifacts)
       IN session' = [session EXCEPT
                        !.fn = "do_reporting",
                        !.pc = IF r.raised THEN "raised"
                               ELSE "y_report_building",
                        !.read = r.read]
    /\ UNCHANGED <<harness, response, text>>

\* a later __anext__ of do_reporting (scan_research.py:333-371): the
\* report is produced from what was read; the LM client may raise
ReportingStep ==
    /\ session.fn = "do_reporting"
    /\ \/ /\ session.pc = "y_report_building"
          /\ \E at \in {"y_report_processing", "raised"} :
                session' = [session EXCEPT !.pc = at]
       \/ /\ session.pc = "y_report_processing"
          /\ \E at \in {"y_report_done", "raised"} :
                session' = [session EXCEPT !.pc = at]
       \/ /\ session.pc = "y_report_done"
          /\ session' = [session EXCEPT !.pc = "returned"]
    /\ UNCHANGED <<harness, response, text>>

CloseReporting ==
    /\ session.fn = "do_reporting"
    /\ session.pc \in ReportingYields
    /\ session' = [session EXCEPT !.pc = "closed"]
    /\ UNCHANGED <<harness, response, text>>

ResearchNext ==
    \/ DoResearch
    \/ ResearchStep
    \/ CloseResearch
    \/ DoReporting
    \/ ReportingStep
    \/ CloseReporting

ResearchSpec == Init /\ [][ResearchNext]_vars

(***************************************************************************)
(* Properties.                                                             *)
(***************************************************************************)
CurrentStore == Snapshot(skills, tidings, globals, last_mid)

\* the body of process_message has run for the current message
BodyRan == pc \in {"suspended", "done", "failed", "closed"}

\* C1: once FrameV4.generate has returned for a terminal message (a
\* message of type code, code_skill, routine or data with non-blank
\* content), the message has been processed and the caller holds the value
\* of __output.
C1_GenerateReturnsOutput ==
    (/\ ret.kind # "nothing"
     /\ Strip(msg.content) # <<>>
     /\ msg.type \in {"code", "code_skill", "routine", "data"})
        => /\ pc \in {"done", "failed"}
           /\ pc = "done" => ret = ReturnedValue(output)

\* C2: a message that fails with EmptyMessage, InvalidType,
\* ClassificationFailed or NotImplemented leaves skills, tidings, the
\* namespace and last_mid as they were before the call; blank content
\* gives EmptyMessage, a type outside the closed set InvalidType, and the
\* types routine_skill, query and query_skill, given or classified,
\* NotImplemented.
EarlyErrors ==
    {"EmptyMessage", "InvalidType", "ClassificationFailed", "NotImplemented"}

C2_EarlyErrorsLeaveState ==
    /\ (pc = "failed" /\ error \in EarlyErrors) => CurrentStore = pre
    /\ (BodyRan /\ Strip(msg.content) = <<>>) => error = "EmptyMessage"
    /\ (/\ BodyRan
        /\ Strip(msg.content) # <<>>
        /\ msg.type \notin Range(allowed_message_types) \cup {NoType})
            => error = "InvalidType"
    /\ (BodyRan /\ message_type \in {"routine_skill", "query", "query_skill"})
            => error = "NotImplemented"

C2_Witness ==
    /\ pc = "failed"
    /\ error = "NotImplemented"
    /\ msg.type \in {NoType, "auto"}
    /\ message_type = "query"
    /\ DOMAIN pre.tidings # {}

\* C3: when the routine of a generating_routine message raises before it
\* has yielded an element of type "final", the tiding store is as it was
\* before the message, whatever was forwarded.
C3_RaiseBeforeFinalKeepsTidings ==
    (/\ pc = "failed"
     /\ message_type = "generating_routine"
     /\ error = "RoutineError"
     /\ ~final.present)
        => tidings = pre.tidings

C3_Witness ==
    /\ pc = "failed"
    /\ error = "RoutineError"
    /\ ~final.present
    /\ Len(delivered) >= 1
    /\ DOMAIN delivered[1].modified_vars # {}

C5_DeliveredIsNonFinalYielded ==
    /\ delivered = NonFinal(yielded)
    /\ \A i \in 1..Len(delivered) : delivered[i].type # "final"

C5_Witness ==
    /\ Len(yielded) = 2
    /\ yielded[1].type = "final"
    /\ Len(delivered) = 1
    /\ DOMAIN delivered[1].modified_vars # {}

\* C6: after a message has installed a skill whose python_name was bound
\* in the namespace before the message, the namespace binds that name to
\* the callable compiled from the new source.
C6_ReinstallReplacesBinding ==
    (/\ pc = "done"
     /\ Len(installed) = 1
     /\ installed[1].python_name \in DOMAIN pre.globals)
        => globals[installed[1].python_name] = CallableOf(installed[1])

\* C7: every name in the skill store is bound in the namespace to the
\* callable of the stored skill.
C7_SkillsBoundInNamespace ==
    \A n \in DOMAIN skills :
        /\ n \in DOMAIN globals
        /\ globals[n] = [name |-> n, ver |-> skills[n].ver, mid |-> skills[n].mid]

\* C8: when the invocation snippet raises, the message fails with the
\* skill it synthesized in the skill store, the skill store and namespace
\* as the install left them, tidings and last_mid unchanged; the message
\* after it starts from a state that holds that skill.
C8_InvocationErrorKeepsSkill ==
    /\ (pc = "failed" /\ error = "InvocationError")
        => /\ installed # <<>>
           /\ \A i \in 1..Len(installed) :
                /\ installed[i].python_name \in DOMAIN skills
                /\ skills[installed[i].python_name] = StoredSkill(installed[i])
           /\ skills = Install(installed, pre.skills, pre.globals).skills
           /\ globals = Install(installed, pre.skills, pre.globals).globals
           /\ tidings = pre.tidings
           /\ last_mid = pre.last_mid
    /\ (prev_error = "InvocationError" /\ pc # "idle")
        => \E n \in DOMAIN pre.skills : pre.skills[n].mid = msg.mid - 1

C8_Witness ==
    /\ prev_error = "InvocationError"
    /\ pc = "done"
    /\ last_mid = msg.mid
    /\ DOMAIN tidings # {}

\* C9 as claimed: a data message whose snippet assigns an identifier at
\* the top level makes it a tiding holding the assigned value.
C9_AssignedIdentifiersBecomeTidings ==
    (pc = "done" /\ message_type = "data" /\ invocation.kind = "assign")
        => /\ invocation.name \in DOMAIN tidings
           /\ tidings[invocation.name].content = invocation.val

\* C9 amended: a data message whose snippet assigns __vars makes each
\* entry of __vars a tiding holding the entry's value, with the empty
\* description; identifiers assigned at the top level change no tiding.
C9_DataVarsBecomeTidings ==
    (pc = "done" /\ message_type = "data")
        => /\ invocation.kind = "vars"
                => tidings = Put(pre.tidings, invocation.name,
                                 [content |-> invocation.val, description |-> ""])
           /\ invocation.kind = "assign" => tidings = pre.tidings

C9_Witness ==
    /\ pc = "done"
    /\ message_type = "data"
    /\ invocation.kind = "vars"
    /\ invocation.name \in DOMAIN tidings
    /\ invocation.name \notin DOMAIN pre.tidings

\* C10: after the second data message that assigns an identifier, the
\* tiding of that identifier carries the value and the description (for a
\* data message the empty one) of the second message.
C10_TidingReplacement ==
    \A n \in TNames :
        (/\ pc = "done"
         /\ message_type = "data"
         /\ n \in DOMAIN out_vars
         /\ data_writes[n] = 2)
            => /\ n \in DOMAIN tidings
               /\ tidings[n] = [content |-> out_vars[n], description |-> ""]

C10_Witness ==
    /\ pc = "done"
    /\ message_type = "data"
    /\ data_writes["x"] = 2
    /\ "x" \in DOMAIN out_vars
    /\ "x" \in DOMAIN pre.tidings
    /\ pre.tidings["x"].content # out_vars["x"]

\* a step of the body of process_message: its first or a later resumption
MessageStep ==
    /\ pc \in {"created", "suspended"}
    /\ pc' \in {"suspended", "done", "failed"}

\* C11: between resets last_mid never decreases, in whatever order the
\* submitted messages complete.
C11_LastMidNeverDecreases ==
    [][MessageStep => last_mid' >= last_mid]_vars

\* C12: a message that installs a skill or upserts a tiding does so before
\* any message submitted after it has installed a skill: when a step of a
\* message changes the skill store or the tiding store, no stored skill
\* comes from a message with a higher mid.
C12_MutationsInArrivalOrder ==
    [][(MessageStep /\ (skills' # skills \/ tidings' # tidings))
          => \A n \in DOMAIN skills : skills[n].mid <= msg'.mid]_vars

\* C13: when the consumer has stopped pulling a streaming message, the
\* tiding store is as it was before the message; a generating_routine
\* message changes the tiding store only by completing after its routine
\* has yielded an element of type "final".
C13_CancelCommitsNoTiding ==
    /\ pc = "closed" => tidings = pre.tidings
    /\ (/\ message_type = "generating_routine"
        /\ BodyRan
        /\ tidings # pre.tidings)
            => pc = "done" /\ final.present

C13_Witness ==
    /\ pc = "closed"
    /\ final.present
    /\ Len(delivered) >= 1
    /\ DOMAIN delivered[1].modified_vars # {}
    /\ DOMAIN pre.tidings # {}

\* C14: once a streaming response has been cancelled, it has emitted
\* exactly one event of type "cancelled", that event is its last one, and
\* it then propagates the cancellation.
C14_CancelledIsLastEvent ==
    response.cancelled =>
        /\ response.pc \in {"y_cancelled", "propagated"}
        /\ response.events # <<>>
        /\ response.events[Len(response.events)] = "cancelled"
        /\ Cardinality({i \in DOMAIN response.events :
                            response.events[i] = "cancelled"}) = 1

\* C15: for every reply of the LM, decide_message_type fails or returns an
\* allowed type other than "auto"; a message given as auto (or None), once
\* the LM has replied, is either refused with ClassificationFailed or
\* processed under such a type.
\* decide_message_type reads nothing of the frame but the constant lists,
\* so the replies are enumerated in the initial state only.
NonAutoTypes == Range(allowed_message_types) \ {"auto"}

ClosedOnAllReplies ==
    \A raw_completion \in AllReplies \cup TypeReplies :
        LET d == DecideMessageType(raw_completion)
        IN d.raised \/ d.message_type \in NonAutoTypes

C15_ClassificationClosure ==
    /\ (pc = "idle" /\ next_mid = 0) => ClosedOnAllReplies
    /\ (/\ BodyRan
        /\ msg.type \in {NoType, "auto"}
        /\ Strip(msg.content) # <<>>
        /\ error # "LMUnavailable")
            => \/ /\ pc = "failed"
                  /\ error = "ClassificationFailed"
                  /\ message_type = "auto"
               \/ message_type \in NonAutoTypes

C15_Witness ==
    /\ pc = "failed"
    /\ error = "ClassificationFailed"
    /\ msg.type = "auto"
    /\ CurrentStore = pre
    /\ DOMAIN tidings # {}

\* C16: a code, routine or generating_routine message whose synthesis
\* output holds no top-level function completes with no skill installed,
\* no invocation snippet produced or executed, nothing forwarded, the
\* namespace and the tidings as before, and last_mid set to its mid.
PrincipalTypes == {"code", "routine", "generating_routine"}
SynthesisErrors ==
    EarlyErrors \cup {"MustGenerate", "SynthesisTypeError", "LMUnavailable"}

C16_EmptySynthesis ==
    (/\ BodyRan
     /\ message_type \in PrincipalTypes
     /\ error \notin SynthesisErrors
     /\ installed = <<>>)
        => /\ pc = "done"
           /\ error = ""
           /\ invocation = NoSnippet
           /\ output = NoValue
           /\ out_vars = EmptyDict
           /\ delivered = <<>>
           /\ skills = pre.skills
           /\ globals = pre.globals
           /\ tidings = pre.tidings
           /\ last_mid = msg.mid

C16_Witness ==
    /\ pc = "done"
    /\ message_type = "generating_routine"
    /\ installed = <<>>
    /\ last_mid = msg.mid
    /\ pre.last_mid # msg.mid
    /\ DOMAIN pre.tidings # {}

\* C17: after new_instance the session is in the bootstrap state whatever
\* the messages before it did: no tiding, the skill store holding only
\* language_model, the namespace holding language_model and no identifier
\* of a synthesized function or of a tiding, last_mid = -1.
C17_ResetToBootstrap ==
    pc = "idle"
        => /\ tidings = EmptyDict
           /\ skills = BootstrapSkills
           /\ globals = BootstrapGlobals
           /\ "language_model" \in DOMAIN globals
           /\ \A n \in FNames \cup TNames : n \notin DOMAIN globals
           /\ last_mid = -1

C17_Witness ==
    /\ pc = "idle"
    /\ "doubler" \in DOMAIN pre.skills
    /\ "doubler" \in DOMAIN pre.globals
    /\ "x" \in DOMAIN pre.tidings
    /\ pre.last_mid >= 0
    /\ last_mid = -1

\* C18: between two resets no name leaves the skill store: while a message
\* is processed, whether it completes, fails or is abandoned, every name
\* stored when it was submitted is still stored.
C18_SkillsNeverDeleted ==
    pc # "idle" => DOMAIN pre.skills \subseteq DOMAIN skills

C18_Witness ==
    /\ pc = "failed"
    /\ error = "InvocationError"
    /\ Cardinality(DOMAIN pre.skills) >= 2
    /\ DOMAIN skills # DOMAIN pre.skills
    /\ DOMAIN pre.skills \subseteq DOMAIN skills

\* C19: a snippet __output = fn(arg) of a code or routine message, with arg
\* a tiding committed by an earlier message and fn bound in the namespace,
\* does not fail: __output is fn applied to the content that tiding had
\* when the message was submitted, and the tidings stay as they were.
C19_LaterMessageReadsTiding ==
    (/\ BodyRan
     /\ message_type \in {"code", "routine"}
     /\ invocation.kind = "output"
     /\ invocation.arg \in DOMAIN pre.tidings
     /\ invocation.fn \in DOMAIN globals)
        => /\ pc = "done"
           /\ output = Some(globals[invocation.fn].ver
                                * pre.tidings[invocation.arg].content)
           /\ tidings = pre.tidings

C19_Witness ==
    /\ pc = "done"
    /\ message_type = "code"
    /\ invocation.kind = "output"
    /\ invocation.fn = "doubler"
    /\ invocation.arg = "x"
    /\ data_writes["x"] >= 1
    /\ pre.tidings["x"].content = 7
    /\ "doubler" \in DOMAIN skills
    /\ skills["doubler"].mid = msg.mid
    /\ output = Some(14)
    /\ tidings["x"].content = 7

\* C20: a message processed under a type other than generating_routine,
\* given or resolved from auto, forwards no notification: its generator
\* never suspends and the consumer receives nothing.
C20_OnlyGeneratingRoutineNotifies ==
    message_type # "generating_routine"
        => /\ delivered = <<>>
           /\ yielded = <<>>
           /\ pc # "suspended"

C20_Witness ==
    /\ pc = "done"
    /\ msg.type \in {NoType, "auto"}
    /\ message_type = "routine"
    /\ generate_not_return
    /\ DOMAIN out_vars # {}
    /\ delivered = <<>>

\* C21: while a message is processed each errand of its pipeline is run at
\* most once, and a failure of the LM client in an errand ends the message:
\* the failed errand is the last one run and process_message raises the
\* failure to its caller.
C21_NoRetry ==
    /\ \A i, j \in DOMAIN errands :
            i # j => errands[i].designation # errands[j].designation
    /\ \A i \in DOMAIN errands :
            ~errands[i].ok
                => /\ i = Len(errands)
                   /\ pc = "failed"
                   /\ error = "LMUnavailable"
    /\ error = "LMUnavailable"
            => /\ errands # <<>>
               /\ ~errands[Len(errands)].ok

C21_Witness ==
    /\ pc = "failed"
    /\ error = "LMUnavailable"
    /\ msg.type = "auto"
    /\ message_type = "code"
    /\ Len(errands) = 4
    /\ errands[4] = [designation |-> "message_code_variables", ok |-> FALSE]
    /\ errands[3].ok

\* C22: when a message has installed skills each of which has the source
\* of the version stored under its name before the message, every binding
\* of the namespace is as it was before the message.
C22_IdempotentInstall ==
    (/\ pc = "done"
     /\ installed # <<>>
     /\ \A i \in DOMAIN installed :
            /\ installed[i].python_name \in DOMAIN pre.skills
            /\ pre.skills[installed[i].python_name].ver = installed[i].ver)
        => globals = pre.globals

\* the last Len(suffix) atoms of string are suffix: str.endswith
EndsWith(string, suffix) ==
    /\ Len(suffix) <= Len(string)
    /\ SubSeq(string, Len(string) - Len(suffix) + 1, Len(string)) = suffix

\* the sentence of the addendum that names message id m
AddendumSentence(m) ==
    <<"This function was generated to fulfill the intent of the user message with message id ",
      ToString(m), ".">>

\* C23: every skill in the skill store that was produced from a user
\* message with id m, by any pipeline, has a docstring that ends with the
\* sentence naming m; so has every skill a pipeline has returned.
C23_DocstringAddendum ==
    /\ \A n \in DOMAIN skills :
            skills[n].mid >= 0
                => EndsWith(skills[n].docstring, AddendumSentence(skills[n].mid))
    /\ \A i \in DOMAIN installed :
            /\ installed[i].mid = msg.mid
            /\ EndsWith(installed[i].docstring, AddendumSentence(msg.mid))

C23_Witness ==
    /\ pc = "done"
    /\ message_type = "code_skill"
    /\ Len(installed) = 2
    /\ "doubler" \in DOMAIN skills
    /\ "helper" \in DOMAIN skills
    /\ skills["doubler"].mid = 0
    /\ skills["helper"].mid = 1
    /\ skills["helper"].docstring[Len(skills["helper"].docstring) - 1] = "1"

\* C24: for every source text, sanitize_code followed by
\* extract_function_definitions gives the same list of functions for the
\* text fenced with ```python, fenced with ``` and bare: whatever the
\* form, the list it gives for the bare text.
C24_FenceRobustness ==
    (text.fn = "synthesis" /\ text.pc = "extracted")
        => text.func_defs = extract_function_definitions(sanitize_code(text.src))

\* the value args gives for the token atom, <<atom>> when args has no name
\* with that token
RECURSIVE ValueOf(_, _)
ValueOf(atom, args) ==
    IF args = <<>> THEN <<atom>>
    ELSE IF Token(Head(args)[1]) = atom THEN Head(args)[2]
    ELSE ValueOf(atom, Tail(args))

\* every atom of the prompt replaced by its value, at once
RECURSIVE Substituted(_, _)
Substituted(prompt, args) ==
    IF prompt = <<>> THEN <<>>
    ELSE ValueOf(Head(prompt), args) \o Substituted(Tail(prompt), args)

\* the prompt with, for each name of args in turn, the first occurrence of
\* its token replaced
RECURSIVE FirstOccurrences(_, _)
FirstOccurrences(prompt, args) ==
    IF args = <<>> THEN prompt
    ELSE FirstOccurrences(ReplaceOnce(prompt, Token(Head(args)[1]),
                                      Head(args)[2]),
                          Tail(args))

Occurrences(string, atom) ==
    Cardinality({i \in DOMAIN string : string[i] = atom})

IsToken(atom) == atom \in {Token(n) : n \in ArgNames \cup {"skills"}}

\* no value of args contains a token
PlainValues(args) ==
    \A i \in DOMAIN args : \A j \in DOMAIN args[i][2] : ~IsToken(args[i][2][j])

\* C25 as claimed: Errand.run sends the template with, for each name in
\* args, only the first occurrence of {name} replaced by its value.
C25_FirstOccurrenceReplaced ==
    (text.fn = "errand" /\ text.pc = "sent" /\ PlainValues(text.args))
        => text.sent = FirstOccurrences(text.prompt, text.args)

\* C25 amended: Errand.run sends the template with, for each name in
\* args, every occurrence of {name} replaced by its value (shown for
\* values that hold no placeholder, where the order of args cannot
\* matter); a placeholder whose name is not in args remains as literal
\* text, whatever the values.
C25_EveryOccurrenceReplaced ==
    (text.fn = "errand" /\ text.pc = "sent")
        => /\ PlainValues(text.args)
                => text.sent = Substituted(text.prompt, text.args)
           /\ Occurrences(text.sent, Token("skills"))
                = Occurrences(text.prompt, Token("skills"))

C25_Witness ==
    /\ text.fn = "errand"
    /\ text.pc = "sent"
    /\ text.prompt = <<Token("message"), Token("skills"), Token("message")>>
    /\ text.args = <<<<"message", <<"hello">>>>>>
    /\ text.sent = <<"hello", Token("skills"), "hello">>

\* C26: MultipleChoiceErrand.run returns the choice of lowest position in
\* its choices list among those that occur in the reply of the LM, and
\* None when no choice occurs in it.
C26_FirstChoiceInListOrder ==
    (text.fn = "multiple_choice" /\ text.pc = "returned")
        => LET hits == {i \in DOMAIN text.choices :
                            Contains(text.raw_completion, Atoms(text.choices[i]))}
           IN IF hits = {} THEN text.ret = NoType
              ELSE \E i \in hits :
                      /\ \A j \in hits : i <= j
                      /\ text.ret = text.choices[i]

C26_Witness ==
    /\ text.fn = "multiple_choice"
    /\ text.pc = "returned"
    /\ text.choices = MessageTypeChoices
    /\ text.raw_completion = <<"data", "code">>
    /\ text.ret = "code"

\* the errands of the pipeline of a message type, in the order of the code
PipelineErrands(mt) ==
    CASE mt \in PrincipalTypes ->
            <<ProcessingErrand(mt), CallErrand(mt), VariablesErrand(mt)>>
      [] mt = "code_skill" -> <<"message_code_skill_processing">>
      [] mt = "data" -> <<"message_data_processing">>
      [] OTHER -> <<>>

\* the designations of the errands run, without the classification
SynthesisErrandsRun ==
    LET all == [i \in DOMAIN errands |-> errands[i].designation]
    IN IF all # <<>> /\ all[1] = "message_type" THEN Tail(all) ELSE all

IsPrefix(a, b) == Len(a) <= Len(b) /\ SubSeq(b, 1, Len(a)) = a

InstalledNames == {installed[i].python_name : i \in DOMAIN installed}

\* C27: the stages of a message follow one order: synthesis errands
\* (processing, call, variables), install, invocation, tiding upserts,
\* last_mid.  A message that stops at a stage shows the effects of the
\* stages before it and none of the later ones: a failed errand leaves no
\* skill installed; a failed install leaves the invocation unexecuted; the
\* invocation finds the skills of its own message installed, and when it
\* fails no tiding is upserted; tidings change only in the step that sets
\* last_mid; a completed message has run all its errands and installed all
\* its skills.
C27_StageOrder ==
    /\ BodyRan => IsPrefix(SynthesisErrandsRun, PipelineErrands(message_type))
    /\ error = "LMUnavailable"
        => /\ skills = pre.skills
           /\ globals = pre.globals
           /\ installed = <<>>
           /\ invocation = NoSnippet
    /\ (BodyRan /\ installed # <<>>)
        => SynthesisErrandsRun = PipelineErrands(message_type)
    /\ error = "InstallError"
        => /\ invocation = NoSnippet
           /\ output = NoValue
           /\ tidings = pre.tidings
    /\ (BodyRan /\ invocation # NoSnippet)
        => /\ SynthesisErrandsRun = PipelineErrands(message_type)
           /\ \A i \in DOMAIN installed :
                /\ installed[i].python_name \in DOMAIN skills
                /\ skills[installed[i].python_name] = StoredSkill(installed[i])
                /\ installed[i].python_name \in DOMAIN globals
    /\ error = "InvocationError"
        => /\ invocation.fn \notin InstalledNames
                \/ invocation.arg \notin DOMAIN pre.tidings \cup DOMAIN globals
           /\ tidings = pre.tidings
    /\ (BodyRan /\ tidings # pre.tidings)
        => /\ pc = "done"
           /\ invocation # NoSnippet
           /\ last_mid = msg.mid
    /\ (BodyRan /\ pc # "done") => last_mid = pre.last_mid
    /\ pc = "done"
        => /\ last_mid = msg.mid
           /\ error = ""
           /\ \A i \in DOMAIN errands : errands[i].ok

C27_Witness ==
    /\ pc = "done"
    /\ msg.type = "auto"
    /\ message_type = "code"
    /\ Len(errands) = 4
    /\ InstalledNames = {"doubler"}
    /\ "doubler" \notin DOMAIN pre.skills
    /\ invocation.kind = "both"
    /\ invocation.fn = "doubler"
    /\ output # NoValue
    /\ tidings # pre.tidings
    /\ pre.last_mid # msg.mid
    /\ last_mid = msg.mid

\* the positions of the separator entries of a trace (an entry is compared
\* by its text first: the values of entries of different kinds are not
\* comparable)
IsSeparator(entry) == entry.head = Separator.head /\ entry.value = <<>>

SeparatorsOf(entries) == {i \in DOMAIN entries : IsSeparator(entries[i])}

\* one record: a separator, the "Compiled message" entry of the message,
\* further entries, a separator, and no separator in between
IsOneRecord(entries, mid) ==
    /\ Len(entries) >= 3
    /\ SeparatorsOf(entries) = {1, Len(entries)}
    /\ entries[2].head = "Compiled message "
    /\ entries[2].value = mid

\* the message failed at validation, classification or dispatch
FailedBeforeSynthesis ==
    \/ error \in EarlyErrors \cup {"MustGenerate"}
    \/ /\ error = "LMUnavailable"
       /\ errands[Len(errands)].designation = "message_type"

\* C28: a message whose synthesis pipeline returned (an empty synthesis
\* included) has appended exactly one record, delimited by two separator
\* entries, to the compilation trace, and the record is there also when the
\* install of its skills or its invocation then failed, and it is not
\* appended again when a streaming message is resumed; a message that
\* failed at validation, classification or dispatch has appended nothing.
C28_OneCompilationRecord ==
    /\ (BodyRan /\ error \notin SynthesisErrors)
        => IsOneRecord(compilation_trace, msg.mid)
    /\ (BodyRan /\ FailedBeforeSynthesis) => compilation_trace = <<>>
    /\ pc \in {"idle", "created"} => compilation_trace = <<>>

C28_Witness ==
    /\ pc = "failed"
    /\ error = "InstallError"
    /\ Len(installed) = 1
    /\ IsOneRecord(compilation_trace, msg.mid)
    /\ Len(compilation_trace) = 13
    /\ compilation_trace[3].head = "Invocation code: "
    /\ compilation_trace[4].head = "Variable descriptions: "

\* the names a message added to the skill store of a new instance
NewSkillNames == DOMAIN text.stored \ DOMAIN BootstrapSkills

\* the function func_defs[i] is what the skill store holds under its name
IsStored(i) ==
    LET func == text.func_defs[i]
    IN /\ func.python_name \in DOMAIN text.stored
       /\ text.stored[func.python_name].ver = func.ver
       /\ text.stored[func.python_name].mid = text.mid

\* at most one skill is stored, the first function of the output
PrincipalStoresFirst ==
    /\ Cardinality(NewSkillNames) <= 1
    /\ NewSkillNames # {}
        => /\ text.func_defs # <<>>
           /\ NewSkillNames = {text.func_defs[1].python_name}
           /\ IsStored(1)
    /\ (~text.raised /\ text.func_defs # <<>>) => IsStored(1)

C29_WitnessPrincipal ==
    /\ text.fn = "skills"
    /\ text.pc = "installed"
    /\ text.message_type = "code"
    /\ Len(text.func_defs) = 2
    /\ text.func_defs[2].python_name # text.func_defs[1].python_name
    /\ NewSkillNames = {text.func_defs[1].python_name}

\* C30: a code_skill message, given as such or resolved from auto, runs
\* the code_skill processing errand only and produces no invocation
\* snippet, executes none (no output, no __vars, no notification) and
\* leaves the tiding store as it was; of the three stores only the skill
\* store and the namespace change.
C30_CodeSkillInvokesNothing ==
    (BodyRan /\ message_type = "code_skill")
        => /\ invocation = NoSnippet
           /\ output = NoValue
           /\ out_vars = EmptyDict
           /\ final = NoFinal
           /\ yielded = <<>>
           /\ delivered = <<>>
           /\ tidings = pre.tidings
           /\ IsPrefix(SynthesisErrandsRun, <<"message_code_skill_processing">>)
           /\ \A i \in DOMAIN compilation_trace :
                compilation_trace[i].head
                    \notin {"Invocation code: ", "Variable descriptions: "}
           /\ pc \in {"done", "failed"}

C30_Witness ==
    /\ pc = "done"
    /\ message_type = "code_skill"
    /\ msg.type = "auto"
    /\ Len(installed) = 2
    /\ skills # pre.skills
    /\ globals # pre.globals
    /\ DOMAIN pre.tidings # {}
    /\ tidings = pre.tidings
    /\ invocation = NoSnippet

\* the same for a message given as code_skill
C30_WitnessGiven ==
    /\ pc = "done"
    /\ message_type = "code_skill"
    /\ msg.type = "code_skill"
    /\ skills # pre.skills
    /\ globals # pre.globals
    /\ tidings = pre.tidings
    /\ invocation = NoSnippet

\* the errors a message can fail with, by the stage that raises them
StageErrors ==
    EarlyErrors \cup SynthesisErrors
        \cup {"MustGenerate", "LMUnavailable", "InstallError",
              "InvocationError", "MissingGenerator", "RoutineError"}

\* C31: last_mid is changed only by a message that ran to completion: a
\* message that failed at any stage, and a streaming message that is
\* suspended or whose stream was abandoned, leave last_mid at the value it
\* had before the message; a message that has changed last_mid has
\* completed and last_mid is its mid.
C31_LastMidOnlyOnCompletion ==
    /\ pc = "failed" => (error \in StageErrors /\ last_mid = pre.last_mid)
    /\ pc \in {"created", "suspended", "closed"} => last_mid = pre.last_mid
    /\ (BodyRan /\ last_mid # pre.last_mid)
        => (pc = "done" /\ error = "" /\ last_mid = msg.mid)

C31_Witness ==
    /\ pc = "closed"
    /\ final.present
    /\ msg.mid = 1
    /\ pre.last_mid = 0
    /\ last_mid = 0
    /\ skills # pre.skills

C31_WitnessFailed ==
    /\ pc = "failed"
    /\ error = "RoutineError"
    /\ final.present
    /\ pre.last_mid = 0
    /\ last_mid = 0

\* the designations of the errands of the synthesis pipelines and of the
\* classification
PipelineDesignations ==
    {"message_type", "message_data_processing",
     "message_code_skill_processing"}
        \cup UNION {{ProcessingErrand(mt), CallErrand(mt), VariablesErrand(mt)} :
                        mt \in PrincipalTypes}

\* C32: a failure of the LM client in an errand of the pipeline of a
\* message (classification, processing, call, variables) leaves skills,
\* tidings, the namespace and last_mid as they were before the message:
\* every errand of a message has run, and succeeded, before the first
\* skill of the message is installed or its invocation is executed.
C32_LMFailureLeavesState ==
    /\ error = "LMUnavailable"
        => /\ CurrentStore = pre
           /\ errands[Len(errands)].designation \in PipelineDesignations
    /\ (BodyRan /\ (skills # pre.skills \/ globals # pre.globals
                        \/ tidings # pre.tidings))
        => /\ SynthesisErrandsRun = PipelineErrands(message_type)
           /\ \A i \in DOMAIN errands : errands[i].ok

C32_Witness ==
    /\ pc = "failed"
    /\ error = "LMUnavailable"
    /\ Len(errands) = 4
    /\ errands[4].designation = "message_routine_variables"
    /\ ~errands[4].ok
    /\ "doubler" \in DOMAIN pre.skills
    /\ DOMAIN pre.tidings # {}
    /\ CurrentStore = pre

\* every entry of modified_vars is the content of the tiding of its name
Holds(tid, modified_vars) ==
    \A n \in DOMAIN modified_vars :
        n \in DOMAIN tid /\ tid[n].content = modified_vars[n]

\* the tidings outside modified_vars are those of before the message
KeepsOthers(tid, modified_vars) ==
    /\ DOMAIN tid = DOMAIN pre.tidings \cup DOMAIN modified_vars
    /\ \A n \in DOMAIN tid \ DOMAIN modified_vars : tid[n] = pre.tidings[n]

StreamingEnded ==
    message_type = "generating_routine" /\ pc \in {"done", "failed", "closed"}

\* C33 as stated: the tidings of a streaming message are committed if and
\* only if a final element was received, also when the routine raises
\* after it has yielded the final element.
C33_CommittedOnceFinalReceived ==
    StreamingEnded
        => IF final.present
           THEN Holds(tidings, final.modified_vars)
           ELSE tidings = pre.tidings

\* C33, amended: the tidings of a streaming message are committed if and
\* only if a final element was received and the generator of the routine
\* was then exhausted: a message that completed holds the modified_vars of
\* __final and otherwise the tidings of before; a message whose routine
\* raised, also after it yielded a final element, and a message that was
\* abandoned, leave the tidings as they were.
C33_CommittedOnExhaustion ==
    /\ (StreamingEnded /\ pc = "done")
        => /\ Holds(tidings, final.modified_vars)
           /\ KeepsOthers(tidings, final.modified_vars)
           /\ ~final.present => tidings = pre.tidings
    /\ (StreamingEnded /\ pc # "done") => tidings = pre.tidings

C33_Witness ==
    /\ pc = "failed"
    /\ error = "RoutineError"
    /\ final.present
    /\ "x" \in DOMAIN final.modified_vars
    /\ "x" \notin DOMAIN tidings
    /\ tidings = pre.tidings
    /\ Len(delivered) >= 1

C33_WitnessCommitted ==
    /\ pc = "done"
    /\ message_type = "generating_routine"
    /\ final.present
    /\ "x" \in DOMAIN final.modified_vars
    /\ "x" \notin DOMAIN pre.tidings
    /\ "done" \in DOMAIN pre.tidings
    /\ tidings["x"].content = 7

\* the elements of type "final" the routine has yielded, in order
FinalsYielded == SelectSeq(yielded, LAMBDA n : n.type = "final")

\* C34: when a streaming routine has yielded more than one element of type
\* "final", none of them is forwarded, __final is the last of them, and a
\* message that completes commits exactly the modified_vars of the last
\* one: the tidings named by an earlier final element only are as before
\* the message.
C34_LastFinalWins ==
    (message_type = "generating_routine" /\ BodyRan /\ Len(FinalsYielded) >= 2)
        => LET last == FinalsYielded[Len(FinalsYielded)]
           IN /\ \A i \in DOMAIN delivered : delivered[i].type # "final"
              /\ Len(delivered) = Len(yielded) - Len(FinalsYielded)
              /\ final.present
              /\ final.modified_vars = last.modified_vars
              /\ pc = "done"
                    => /\ out_vars = last.modified_vars
                       /\ Holds(tidings, last.modified_vars)
                       /\ KeepsOthers(tidings, last.modified_vars)

C34_Witness ==
    /\ pc = "done"
    /\ message_type = "generating_routine"
    /\ Len(FinalsYielded) = 2
    /\ "done" \in DOMAIN FinalsYielded[1].modified_vars
    /\ "x" \in DOMAIN FinalsYielded[2].modified_vars
    /\ "done" \notin DOMAIN pre.tidings
    /\ "done" \notin DOMAIN tidings
    /\ "x" \in DOMAIN tidings
    /\ tidings["x"].content = 7

\* decide_message_type has returned t for the reply that is the name of t
ClassifiedAs(name, t) ==
    text.raw_completion = Atoms(name)
        => (~text.raised /\ text.message_type = t)

Decided == text.fn = "decide_message_type" /\ text.pc = "returned"

\* C35 as stated: when the reply of the LM to the message_type errand is
\* exactly the name of a message type other than auto, generating_routine
\* included, decide_message_type returns that type.
C35_EveryTypeClassified ==
    Decided => \A t \in NonAutoTypes : ClassifiedAs(t, t)

\* C35, amended: when the reply is exactly the name of one of the seven
\* choices of MessageTypeErrand (every message type but auto and
\* generating_routine), decide_message_type returns that type; the reply
\* generating_routine is classified as routine, and no reply is
\* classified as generating_routine.
C35_EveryChoiceClassified ==
    Decided
        => /\ \A t \in NonAutoTypes \ {"generating_routine"} :
                ClassifiedAs(t, t)
           /\ ClassifiedAs("generating_routine", "routine")
           /\ text.message_type # "generating_routine"

C35_Witness ==
    /\ Decided
    /\ text.raw_completion = Atoms("generating_routine")
    /\ ~text.raised
    /\ text.message_type = "routine"

C35_WitnessSkill ==
    /\ Decided
    /\ text.raw_completion = Atoms("code_skill")
    /\ text.message_type = "code_skill"

\* args with its items in the opposite order
RECURSIVE Reversed(_)
Reversed(args) ==
    IF args = <<>> THEN <<>> ELSE Append(Reversed(Tail(args)), Head(args))

\* C36: in Errand.run the text inserted as the value of a placeholder is
\* not itself searched for placeholders: the prompt sent is the template
\* with every token {name} of args replaced by its value, a value that
\* holds the token of another arg appears as it is, and the prompt sent
\* is the same for either order of args.
C36_ValuesInsertedLiterally ==
    (text.fn = "errand" /\ text.pc = "sent")
        => /\ text.sent = Substituted(text.prompt, text.args)
           /\ text.sent = PromptWithArgs(text.prompt, Reversed(text.args))

\* the positions of the events of the research generator and of the
\* reporting generator in the events of stream_research_events
ResearchPositions == 2..(1 + response.research_events)
ReportingPositions ==
    {i \in DOMAIN response.events :
        /\ i > 1 + response.research_events
        /\ response.events[i] \in ReportingEventTypes}
CompletedPositions ==
    {i \in DOMAIN response.events :
        /\ i > 1 + response.research_events
        /\ response.events[i] = "completed"}
ResearchErrors ==
    {i \in ResearchPositions : response.events[i] = "error"}

\* C37: in stream_research_events the first event is "started"; when the
\* research phase has emitted an event of type "error", no reporting event
\* and no "completed" is emitted; otherwise every reporting event comes
\* after every research event, "completed", when emitted, is the last
\* event, and a response that has returned ends with "completed".
C37_ResearchEventOrder ==
    response.fn = "stream_research_events"
        => LET ev == response.events
           IN /\ ev # <<>>
              /\ ev[1] = "started"
              /\ ResearchPositions \subseteq DOMAIN ev
              /\ \A i \in ResearchPositions : ev[i] \in ResearchEventTypes
              /\ ~response.do_research => ResearchPositions = {}
              /\ ResearchErrors # {}
                    => /\ ReportingPositions = {}
                       /\ CompletedPositions = {}
                       /\ response.pc = "returned"
                            => Len(ev) = 1 + response.research_events
              /\ \A i \in ReportingPositions :
                    \A j \in ResearchPositions : j < i
              /\ CompletedPositions \subseteq {Len(ev)}
              /\ \A i \in CompletedPositions :
                    \A j \in ReportingPositions : j < i
              /\ (response.pc = "returned" /\ ResearchErrors = {})
                    => CompletedPositions = {Len(ev)}

C37_Witness ==
    /\ response.fn = "stream_research_events"
    /\ response.pc = "returned"
    /\ response.research_events = 1
    /\ response.events = <<"started", "progress", "report", "error", "completed">>

C37_WitnessError ==
    /\ response.fn = "stream_research_events"
    /\ response.pc = "returned"
    /\ response.research_events = 2
    /\ response.events = <<"started", "error", "progress">>

\* C38: every event handed to the consumer of a response has been appended
\* to the events file of its session before: at any moment the file ends
\* with the events the response has emitted so far, in the same order,
\* after the events of the earlier responses of the session.
C38_EventsFileHoldsEmitted ==
    LET n == Len(response.file) - Len(response.events)
    IN /\ n >= 0
       /\ SubSeq(response.file, n + 1, Len(response.file)) = response.events
       /\ response.fn = "stream_research2_events" => n = 0

C38_Witness ==
    /\ response.fn = "stream_research_events"
    /\ response.pc = "y_cancelled"
    /\ Len(response.events) = 2
    /\ Len(response.file) = 4
    /\ response.file[4] = "cancelled"
    /\ response.file[2] = "error"

\* the artifacts do_reporting builds its report from
ReportTypes ==
    {"task_prompt", "format_prompt", "topic_relevant_segments", "all_results"}

\* the research run started last has registered the artifacts of a report
LatestRunComplete ==
    \A t \in ReportTypes :
        \E i \in DOMAIN session.artifacts :
            session.artifacts[i] = Item(t, session.run)

\* C39: when do_research has run more than once for a session and the
\* run started last has registered task_prompt, format_prompt,
\* topic_relevant_segments and all_results, a following do_reporting reads
\* each of them as registered by that run.
C39_ReportFromLatestRun ==
    (/\ session.fn = "do_reporting"
     /\ session.run >= 2
     /\ LatestRunComplete)
        => /\ session.pc # "raised" \/ session.read.all_results # 0
           /\ session.read.task_prompt = session.run
           /\ session.read.format_prompt = session.run
           /\ session.read.topic_relevant_segments = session.run
           /\ session.read.search_result_urls = session.run
           /\ session.read.all_results = session.run
====
